---- MODULE Spec2Model ----
(***************************************************************************)
(* Cell tree, task generator and rebuild of the SPH engine (space.c).      *)
(*                                                                         *)
(* Lengths are integers (one unit is a quarter of the smallest child cell  *)
(* edge of the model), so that halving a cell edge twice stays exact.      *)
(* Cells are named by their address: the cells of the top-level array are  *)
(* 1..nr_cells, cells taken from the allocator are PoolBase+1, ...         *)
(* Tasks are named by their position in s->tasks (C index + 1); NULL is 0. *)
(***************************************************************************)
EXTENDS Integers, Sequences, FiniteSets, TLC

NULL == 0

(***************************************************************************)
(* Bounds of the model.                                                    *)
(***************************************************************************)
\* largest number of top-level cells of a grid drawn for the graph build
MaxTopCells == 3

(***************************************************************************)
(* Program constants.                                                      *)
(***************************************************************************)
\* space_splitratio = SplitRatioNum / SplitRatioDen
SplitRatioNum == 1
SplitRatioDen == 2
\* space_stretch = StretchNum / StretchDen
StretchNum == 1
StretchDen == 1
\* limits of the sort-task grouping in maketasks_sort_rec
SortOne == 1000
SortTwo == 5000
\* first address handed out by the cell allocator
PoolBase == 100

Max(a, b) == IF a >= b THEN a ELSE b
Min(a, b) == IF a <= b THEN a ELSE b
Max3(v) == Max(v[1], Max(v[2], v[3]))
Min3(v) == Min(v[1], Min(v[2], v[3]))

\* a table that numbers the shift vectors after the centre upwards again
sortlistID_upwards ==
  << 0, 1, 2, 3, 4, 5, 6, 7, 8, 9, 10, 11, 12, 0,
     1, 2, 3, 4, 5, 6, 7, 8, 9, 10, 11, 12, 0 >>

\* Map shift vector to sortlist (entry n of the C table is sortlistID[n+1]).
sortlistID ==
  << 0, 1, 2, 3, 4, 5, 6, 7, 8, 9, 10, 11, 12, 0,
     12, 11, 10, 9, 8, 7, 6, 5, 4, 3, 2, 1, 0 >>

\* index of the shift vector d (components in -1..1) in sortlistID
ShiftIndex(d) == (d[3] + 1) + 3 * ((d[2] + 1) + 3 * (d[1] + 1))

\* a shift vector whose x component runs fastest with the index
ShiftOf_xfastest(n) == << (n % 3) - 1, ((n \div 3) % 3) - 1, (n \div 9) - 1 >>

\* the shift vector with index n in 0..26
ShiftOf(n) == << (n \div 9) - 1, ((n \div 3) % 3) - 1, (n % 3) - 1 >>

\* sort direction of the pair of progeny (j,k), j < k, of one cell
pts ==
  << << -1, 12, 10,  9,  4,  3,  1,  0 >>,
     << -1, -1, 11, 10,  5,  4,  2,  1 >>,
     << -1, -1, -1, 12,  7,  6,  4,  3 >>,
     << -1, -1, -1, -1,  8,  7,  5,  4 >>,
     << -1, -1, -1, -1, -1, 12, 10,  9 >>,
     << -1, -1, -1, -1, -1, -1, 11, 10 >>,
     << -1, -1, -1, -1, -1, -1, -1, 12 >> >>

\* The switch of space_splittasks: for the direction sid (entry sid+1), the
\* pairs <<progeny of ci, progeny of cj, sorts index>> in the order of the
\* code; the first one re-uses the task that is split.
splitpairs ==
  << << <<7,0,0>> >>,
     << <<6,0,1>>, <<7,1,1>>, <<6,1,0>>, <<7,0,2>> >>,
     << <<6,1,2>> >>,
     << <<5,0,3>>, <<7,2,3>>, <<5,2,0>>, <<7,0,6>> >>,
     << <<4,0,4>>, <<5,0,5>>, <<6,0,7>>, <<7,0,8>>,
        <<4,1,3>>, <<5,1,4>>, <<6,1,6>>, <<7,1,7>>,
        <<4,2,1>>, <<5,2,2>>, <<6,2,4>>, <<7,2,5>>,
        <<4,3,0>>, <<5,3,1>>, <<6,3,3>>, <<7,3,4>> >>,
     << <<4,1,5>>, <<6,3,5>>, <<4,3,2>>, <<6,1,8>> >>,
     << <<5,2,6>> >>,
     << <<4,3,6>>, <<5,2,8>>, <<4,2,7>>, <<5,3,7>> >>,
     << <<4,3,8>> >>,
     << <<3,0,9>>, <<7,4,9>>, <<3,4,0>>, <<7,0,8>> >>,
     << <<2,0,10>>, <<3,0,11>>, <<6,0,7>>, <<7,0,6>>,
        <<2,1,9>>, <<3,1,10>>, <<6,1,8>>, <<7,1,7>>,
        <<2,4,1>>, <<3,4,2>>, <<6,4,10>>, <<7,4,11>>,
        <<2,5,0>>, <<3,5,1>>, <<6,5,9>>, <<7,5,10>> >>,
     << <<2,1,11>>, <<6,5,11>>, <<2,5,2>>, <<6,1,6>> >>,
     << <<1,0,12>>, <<3,0,11>>, <<5,0,5>>, <<7,0,2>>,
        <<1,2,9>>, <<3,2,12>>, <<5,2,8>>, <<7,2,5>>,
        <<1,4,3>>, <<3,4,6>>, <<5,4,12>>, <<7,4,11>>,
        <<1,6,0>>, <<3,6,3>>, <<5,6,9>>, <<7,6,12>> >> >>

\* cell_getid( cdim , i , j , k ), 0-based
cell_getid(cdim, i, j, k) == (i * cdim[2] + j) * cdim[3] + k

\* bit i of the flags word f
Bit(f, i) == (f \div (2 ^ i)) % 2 = 1

(***************************************************************************)
(* Cells and tasks.                                                        *)
(***************************************************************************)
\* a task pointer into an array of tasks that has been freed
Dangling == -1

Nil14 == [k \in 1..14 |-> NULL]
Nil8 == [k \in 1..8 |-> NULL]

\* a cell as bzero leaves it
ZeroCell ==
  [ loc |-> <<0, 0, 0>>, h |-> <<0, 0, 0>>, depth |-> 0, count |-> 0,
    first |-> 0, split |-> FALSE, h_max |-> 0, progeny |-> Nil8,
    parent |-> NULL, super |-> NULL, sorts |-> Nil14, ghost |-> NULL,
    nr_tasks |-> 0, nr_density |-> 0, nr_pairs |-> 0 ]

\* space_addtask: append a task to the list of the build state st
space_addtask(st, type, subtype, flags, ci, cj) ==
  [st EXCEPT !.tasks = Append(@,
     [ type |-> type, subtype |-> subtype, flags |-> flags,
       ci |-> ci, cj |-> cj, unlock |-> {} ])]

\* task_addunlock( ta , tb ): ta unlocks tb; nothing happens on a NULL task
\* or when ta already unlocks tb
task_addunlock(st, ta, tb) ==
  IF ta = NULL \/ tb = NULL THEN st
  ELSE IF ta = Dangling THEN [st EXCEPT !.wild = TRUE]
  ELSE [st EXCEPT !.tasks[ta].unlock = @ \cup {tb}]

\* several task_addunlock calls, E a set of pairs <<ta, tb>>
AddUnlocks(st, E) ==
  [st EXCEPT
     !.tasks =
        [i \in DOMAIN @ |->
           [@[i] EXCEPT !.unlock =
              @ \cup {e[2] : e \in {x \in E : x[1] = i /\ x[2] # NULL}}]],
     !.wild = @ \/ \E x \in E : x[1] = Dangling /\ x[2] # NULL]

\* a run of space_addtask calls for density pair tasks, each followed by the
\* task_addunlock calls from the sort tasks of its two cells: L lists the
\* triples << ci, cj, s >> with s the slot (0..13) of sorts[]
AddPairTasks(st, L) ==
  LET n0 == Len(st.tasks)
      s1 == [st EXCEPT !.tasks = @ \o
               [n \in 1..Len(L) |->
                  [ type |-> "pair", subtype |-> "density", flags |-> 0,
                    ci |-> L[n][1], cj |-> L[n][2], unlock |-> {} ]]]
  IN AddUnlocks(s1,
       { << st.cells[L[n][m]].sorts[L[n][3] + 1], n0 + n >> :
           n \in 1..Len(L), m \in 1..2 })

\* nr_pairs of the two cells of every entry of L goes up by one
AddNrPairs(st, L) ==
  [st EXCEPT !.cells =
     [c \in DOMAIN @ |->
        [@[c] EXCEPT !.nr_pairs = @
           + Cardinality({ n \in 1..Len(L) : L[n][1] = c })
           + Cardinality({ n \in 1..Len(L) : L[n][2] = c })]]]

\* task_rmunlock_blind( ta , tb ): remove tb from the tasks ta unlocks
task_rmunlock_blind(st, ta, tb) ==
  IF ta = NULL THEN [st EXCEPT !.err = "segv"]
  ELSE IF ta = Dangling THEN [st EXCEPT !.wild = TRUE]
  ELSE [st EXCEPT !.tasks[ta].unlock = @ \ {tb}]

\* task_rmunlock( ta , tb ): as above, tb missing from the list is an error
task_rmunlock(st, ta, tb) ==
  IF ta = NULL THEN [st EXCEPT !.err = "segv"]
  ELSE IF ta = Dangling THEN [st EXCEPT !.wild = TRUE]
  ELSE IF tb \notin st.tasks[ta].unlock THEN [st EXCEPT !.err = "abort"]
  ELSE [st EXCEPT !.tasks[ta].unlock = @ \ {tb}]

\* the non-NULL progeny of cell c, as indices 0..7
Kids(cells, c) == {k \in 0..7 : cells[c].progeny[k + 1] # NULL}

\* the cells of the subtree of c, c included
RECURSIVE Subtree(_, _)
Subtree(cells, c) ==
  {c} \cup UNION {Subtree(cells, cells[c].progeny[k + 1]) :
                    k \in IF cells[c].split THEN Kids(cells, c) ELSE {}}

\* the cells space_map_cells (full = 1) visits below and at c, in the
\* order of the visit
RECURSIVE MapOrder(_, _)
MapOrder(cells, c) ==
  LET sub(k) == IF cells[c].progeny[k + 1] # NULL
                THEN MapOrder(cells, cells[c].progeny[k + 1]) ELSE <<>>
  IN IF cells[c].split
     THEN <<c>> \o sub(0) \o sub(1) \o sub(2) \o sub(3)
               \o sub(4) \o sub(5) \o sub(6) \o sub(7)
     ELSE <<c>>

RECURSIVE MapOrderTop(_, _, _)
MapOrderTop(cells, nr, k) ==
  IF k > nr THEN <<>>
  ELSE MapOrder(cells, k) \o MapOrderTop(cells, nr, k + 1)

(***************************************************************************)
(* space_maketasks.  A build state st is [cells, tasks, tasks_size, err,   *)
(* wild]; g holds the fields of the space the build reads: cdim, dim,      *)
(* periodic, nr_cells, tot_cells and the global space_subsize.  err is     *)
(* "ok" until the build dereferences a NULL pointer ("segv") or calls      *)
(* error() ("abort"); wild tells that the build has accessed a task        *)
(* through a pointer into a freed array, which stops the program or goes   *)
(* unnoticed.                                                              *)
(***************************************************************************)

\* the sort tasks of cell c with the groups of 5000 particles and more made
\* from 1000 particles on
SortTasksOf_early(st, c) ==
  LET n == Len(st.tasks)
      cnt == st.cells[c].count
      add(s, f) == space_addtask(s, "sort", "none", f, c, NULL)
  IN IF cnt = 0 THEN st
     ELSE IF cnt < SortOne THEN
       [add(st, 8191) EXCEPT !.cells[c].sorts =
          [k \in 1..14 |-> IF k <= 13 THEN n + 1 ELSE @[k]]]
     ELSE
       [add(add(add(add(add(add(add(st, 3), 12), 48), 192), 768), 3072), 4096)
          EXCEPT !.cells[c].sorts = [k \in 1..14 |-> n + 1 + ((k - 1) \div 2)]]

\* the sort tasks of cell c itself (do_sort = 1)
SortTasksOf(st, c) ==
  LET n == Len(st.tasks)
      cnt == st.cells[c].count
      add(s, f) == space_addtask(s, "sort", "none", f, c, NULL)
  IN IF cnt = 0 THEN st
     ELSE IF cnt < SortOne THEN
       [add(st, 8191) EXCEPT !.cells[c].sorts =
          [k \in 1..14 |-> IF k <= 13 THEN n + 1 ELSE @[k]]]
     ELSE IF cnt < SortTwo THEN
       [add(add(st, 127), 8064) EXCEPT !.cells[c].sorts =
          [k \in 1..14 |-> IF k <= 7 THEN n + 1 ELSE n + 2]]
     ELSE
       [add(add(add(add(add(add(add(st, 3), 12), 48), 192), 768), 3072), 4096)
          EXCEPT !.cells[c].sorts = [k \in 1..14 |-> n + 1 + ((k - 1) \div 2)]]

\* the sorts[] slots j (0..13) of cell c that start a new sort task
SortHeads(cells, c) ==
  {j \in 0..13 : j = 0 \/ cells[c].sorts[j + 1] # cells[c].sorts[j]}

RECURSIVE maketasks_sort_rec(_, _), SortRecKids(_, _, _, _)
maketasks_sort_rec(st, c) ==
  LET s1 == SortTasksOf(st, c)
  IN IF s1.cells[c].split THEN SortRecKids(s1, c, 0, 7) ELSE s1

\* the loop over the progeny lo, ..., hi of the split cell c, in this order
SortRecKids(st, c, lo, hi) ==
  IF lo < hi
  THEN LET s1 == SortRecKids(st, c, lo, (lo + hi) \div 2)
       IN IF s1.err # "ok" THEN s1
          ELSE SortRecKids(s1, c, (lo + hi) \div 2 + 1, hi)
  ELSE LET p == st.cells[c].progeny[lo + 1]
           s1 == maketasks_sort_rec(st, p)
       IN IF p = NULL THEN st
          ELSE AddUnlocks(s1,
                 { << s1.cells[p].sorts[j + 1], s1.cells[c].sorts[j + 1] >> :
                     j \in SortHeads(s1.cells, c) })

RECURSIVE SortAllCells(_, _, _)
SortAllCells(st, g, k) ==
  IF k > g.nr_cells THEN st
  ELSE LET s1 == maketasks_sort_rec(st, k)
       IN IF s1.err # "ok" THEN s1 ELSE SortAllCells(s1, g, k + 1)

\* NeighbourID that wraps also when the space is not periodic
NeighbourID_wrapped(g, i, j, k, n) ==
  LET d == ShiftOf(n)
  IN cell_getid(g.cdim, (i + d[1] + g.cdim[1]) % g.cdim[1],
                (j + d[2] + g.cdim[2]) % g.cdim[2],
                (k + d[3] + g.cdim[3]) % g.cdim[3])

\* the neighbour of top-level cell (i,j,k) at shift n (0..26): its id
\* (0-based), or -1 when the loops skip it
NeighbourID(g, i, j, k, n) ==
  LET d == ShiftOf(n)
      iii == i + d[1]
      jjj == j + d[2]
      kkk == k + d[3]
      out == \/ iii < 0 \/ iii >= g.cdim[1]
             \/ jjj < 0 \/ jjj >= g.cdim[2]
             \/ kkk < 0 \/ kkk >= g.cdim[3]
  IN IF ~g.periodic /\ out THEN -1
     ELSE cell_getid(g.cdim, (iii + g.cdim[1]) % g.cdim[1],
                     (jjj + g.cdim[2]) % g.cdim[2],
                     (kkk + g.cdim[3]) % g.cdim[3])

\* BasePairs that also pairs a cell with itself
BasePairs_self(st, g, cid) ==
  LET i == cid \div (g.cdim[2] * g.cdim[3])
      j == (cid \div g.cdim[3]) % g.cdim[2]
      k == cid % g.cdim[3]
      cjd(n) == NeighbourID(g, i, j, k, n)
      made(n) == /\ cjd(n) # -1
                 /\ st.cells[cjd(n) + 1].count # 0
                 /\ cid <= cjd(n)
      N == SelectSeq([n \in 1..27 |-> n - 1], made)
      L == [m \in 1..Len(N) |->
              << cid + 1, cjd(N[m]) + 1, sortlistID[N[m] + 1] >>]
  IN AddNrPairs(AddPairTasks(st, L), L)

\* the loops over ii, jj, kk for the cell cid (0-based): one pair task per
\* shift n whose neighbour is there, holds particles and has a larger id
BasePairs(st, g, cid) ==
  LET i == cid \div (g.cdim[2] * g.cdim[3])
      j == (cid \div g.cdim[3]) % g.cdim[2]
      k == cid % g.cdim[3]
      cjd(n) == NeighbourID(g, i, j, k, n)
      made(n) == /\ cjd(n) # -1
                 /\ st.cells[cjd(n) + 1].count # 0
                 /\ cid < cjd(n)
      N == SelectSeq([n \in 1..27 |-> n - 1], made)
      L == [m \in 1..Len(N) |->
              << cid + 1, cjd(N[m]) + 1, sortlistID[N[m] + 1] >>]
  IN AddNrPairs(AddPairTasks(st, L), L)

\* the loop over the highest level of cells, from cell cid (0-based) on
RECURSIVE BaseTasks(_, _, _)
BaseTasks(st, g, cid) ==
  IF cid >= g.nr_cells THEN st
  ELSE IF st.cells[cid + 1].count = 0 THEN BaseTasks(st, g, cid + 1)
  ELSE LET s1 == BasePairs(space_addtask(st, "self", "density", 0,
                                           cid + 1, NULL), g, cid)
       IN IF s1.err # "ok" THEN s1 ELSE BaseTasks(s1, g, cid + 1)

(***************************************************************************)
(* space_splittasks, one pass of the loop over tid (0-based) at a time.    *)
(***************************************************************************)

\* a self task on a split cell below space_subsize becomes a sub task
SelfToSub(st, t) ==
  LET ci == st.tasks[t].ci
      s1 == [st EXCEPT !.tasks[t].type = "sub"]
  IN AddUnlocks(s1, { << s1.cells[ci].sorts[k + 1], t >> :
                       k \in SortHeads(s1.cells, ci) })

\* self tasks for the progeny k, ..., 7 of ci
SelfKids(st, ci, k) ==
  LET K == SelectSeq([n \in 1..8 |-> n - 1],
                     LAMBDA j : j >= k /\ st.cells[ci].progeny[j + 1] # NULL)
  IN [st EXCEPT !.tasks = @ \o
        [n \in 1..Len(K) |->
           [ type |-> "self", subtype |-> "density", flags |-> 0,
             ci |-> st.cells[ci].progeny[K[n] + 1], cj |-> NULL,
             unlock |-> {} ]]]

\* PairKids for the pairs of progeny that share a face
PairKids_faces(st, ci) ==
  LET pr(j) == st.cells[ci].progeny[j + 1]
      made(x) == /\ x[1] < x[2]
                 /\ pr(x[1]) # NULL /\ pr(x[2]) # NULL
                 /\ st.cells[pr(x[1])].count # 0
                 /\ st.cells[pr(x[2])].count # 0
                 /\ pts[x[1] + 1][x[2] + 1] \in {4, 10, 12}
      P == SelectSeq([n \in 1..64 |-> << (n - 1) \div 8, (n - 1) % 8 >>], made)
      L == [n \in 1..Len(P) |->
              << pr(P[n][1]), pr(P[n][2]), pts[P[n][1] + 1][P[n][2] + 1] >>]
  IN AddNrPairs(AddPairTasks(st, L), L)

\* pair tasks for the pairs (j,k), j < k, of progeny of ci that hold particles
PairKids(st, ci) ==
  LET pr(j) == st.cells[ci].progeny[j + 1]
      made(x) == /\ x[1] < x[2]
                 /\ pr(x[1]) # NULL /\ pr(x[2]) # NULL
                 /\ st.cells[pr(x[1])].count # 0
                 /\ st.cells[pr(x[2])].count # 0
      P == SelectSeq([n \in 1..64 |-> << (n - 1) \div 8, (n - 1) % 8 >>], made)
      L == [n \in 1..Len(P) |->
              << pr(P[n][1]), pr(P[n][2]), pts[P[n][1] + 1][P[n][2] + 1] >>]
  IN AddNrPairs(AddPairTasks(st, L), L)

\* a self task on a split cell is replaced by the tasks of its progeny
SelfExplicit(st, t) ==
  LET ci == st.tasks[t].ci
      k0 == CHOOSE k \in Kids(st.cells, ci) :
              \A k2 \in Kids(st.cells, ci) : k <= k2
      s1 == [st EXCEPT !.tasks[t].ci = st.cells[ci].progeny[k0 + 1]]
  IN PairKids(SelfKids(s1, ci, k0 + 1), ci)

\* Should this pair task be split-up?
Refinable(cells, ci, cj) ==
  LET hi == Max3(cells[ci].h)
      hj == Max3(cells[cj].h)
  IN /\ cells[ci].split /\ cells[cj].split
     /\ cells[ci].h_max * StretchNum * 2 < hi * StretchDen
     /\ cells[cj].h_max * StretchNum * 2 < hj * StretchDen

\* the relative position of cj with respect to ci along axis k, wrapped
WrappedDiff(g, cells, ci, cj, k) ==
  LET d == cells[cj].loc[k] - cells[ci].loc[k]
      shift == IF 2 * d < -g.dim[k] THEN g.dim[k]
               ELSE IF 2 * d > g.dim[k] THEN -g.dim[k] ELSE 0
  IN d + shift

Sign3(x) == IF x < 0 THEN 0 ELSE IF x > 0 THEN 2 ELSE 1

\* RawSid from the positions as they are, without the periodic wrap
RawSid_nowrap(g, cells, ci, cj) ==
  9 * Sign3(cells[cj].loc[1] - cells[ci].loc[1])
  + 3 * Sign3(cells[cj].loc[2] - cells[ci].loc[2])
  + Sign3(cells[cj].loc[3] - cells[ci].loc[3])

\* the sorting index (0..26) of the pair (ci, cj)
RawSid(g, cells, ci, cj) ==
  9 * Sign3(WrappedDiff(g, cells, ci, cj, 1))
  + 3 * Sign3(WrappedDiff(g, cells, ci, cj, 2))
  + Sign3(WrappedDiff(g, cells, ci, cj, 3))

\* PairToSub over the sorts of the direction sid only
PairToSub_onedir(st, t, ci, cj, sid) ==
  LET s1 == [st EXCEPT !.tasks[t].type = "sub", !.tasks[t].flags = sid,
                       !.tasks[t].ci = ci, !.tasks[t].cj = cj]
      P == { s1.cells[c].progeny[j + 1] : c \in {ci, cj}, j \in 0..7 } \ {NULL}
  IN AddUnlocks(s1, { << s1.cells[p].sorts[sid + 1], t >> : p \in P })

\* a pair task becomes a sub task over the sorts of all progeny
PairToSub(st, t, ci, cj, sid) ==
  LET s1 == [st EXCEPT !.tasks[t].type = "sub", !.tasks[t].flags = sid,
                       !.tasks[t].ci = ci, !.tasks[t].cj = cj]
      P == { s1.cells[c].progeny[j + 1] : c \in {ci, cj}, j \in 0..7 } \ {NULL}
  IN AddUnlocks(s1, { << s1.cells[p].sorts[k], t >> : p \in P, k \in 1..14 })

\* the tasks appended by one case of the switch: entries n, n+1, ... of L
SwitchPairs(st, ci, cj, L, n) ==
  AddPairTasks(st,
    [m \in 1..(Len(L) - n + 1) |->
       << st.cells[ci].progeny[L[m + n - 1][1] + 1],
          st.cells[cj].progeny[L[m + n - 1][2] + 1],
          L[m + n - 1][3] >>])

\* nr_pairs of the progeny after one case of the switch
SwitchNrPairs(st, ci, cj, L) ==
  [st EXCEPT !.cells =
       [c \in DOMAIN @ |->
          [@[c] EXCEPT !.nr_pairs = @
             + Cardinality({ n \in 1..Len(L) :
                   st.cells[ci].progeny[L[n][1] + 1] = c })
             + Cardinality({ n \in 1..Len(L) :
                   st.cells[cj].progeny[L[n][2] + 1] = c })]]]

\* a refinable pair task (ci, cj) of direction sid is replaced by the pair
\* tasks of the progeny
PairExplicit(st, t, ci, cj, sid) ==
  LET s0 == [st EXCEPT !.tasks[t].ci = ci, !.tasks[t].cj = cj]
      s1 == task_rmunlock(s0, s0.cells[ci].sorts[sid + 1], t)
      s2 == IF s1.err # "ok" THEN s1
            ELSE task_rmunlock(s1, s1.cells[cj].sorts[sid + 1], t)
      s3 == [s2 EXCEPT !.cells[ci].nr_pairs = @ - 1,
                       !.cells[cj].nr_pairs = @ - 1]
      L == splitpairs[sid + 1]
      missing == \E n \in 1..Len(L) :
                    \/ s3.cells[ci].progeny[L[n][1] + 1] = NULL
                    \/ s3.cells[cj].progeny[L[n][2] + 1] = NULL
      pi == s3.cells[ci].progeny[L[1][1] + 1]
      pj == s3.cells[cj].progeny[L[1][2] + 1]
      s4 == [s3 EXCEPT !.tasks[t].ci = pi, !.tasks[t].cj = pj]
      s5 == task_addunlock(s4, s4.cells[pi].sorts[L[1][3] + 1], t)
      s6 == task_addunlock(s5, s5.cells[pj].sorts[L[1][3] + 1], t)
  IN IF s2.err # "ok" THEN s2
     ELSE IF missing THEN [s3 EXCEPT !.err = "segv"]
     ELSE SwitchNrPairs(SwitchPairs(s6, ci, cj, L, 2), ci, cj, L)

\* one pass of the loop of space_splittasks on task tid (0-based); the
\* result holds the build state and the value of tid for the next pass
SplitStep(st, g, tid) ==
  LET t == tid + 1
      tk == st.tasks[t]
      stay == [st |-> st, tid |-> tid + 1]
  IN IF tk.type = "self" THEN
       IF ~st.cells[tk.ci].split THEN stay
       ELSE IF st.cells[tk.ci].count < g.subsize
         THEN [st |-> SelfToSub(st, t), tid |-> tid + 1]
       ELSE [st |-> SelfExplicit(st, t), tid |-> tid]
     ELSE IF tk.type = "pair" THEN
       IF ~Refinable(st.cells, tk.ci, tk.cj) THEN stay
       ELSE
         LET raw == RawSid(g, st.cells, tk.ci, tk.cj)
             ci == IF raw < 13 THEN tk.cj ELSE tk.ci
             cj == IF raw < 13 THEN tk.ci ELSE tk.cj
             sid == IF raw < 13 THEN raw ELSE 26 - raw
         IN IF /\ st.cells[ci].count < g.subsize
               /\ st.cells[cj].count < g.subsize
               /\ sid \notin {0, 2, 6, 8}
            THEN [st |-> PairToSub(st, t, ci, cj, sid), tid |-> tid + 1]
            ELSE [st |-> PairExplicit(st, t, ci, cj, sid), tid |-> tid]
     ELSE stay

\* the whole loop of space_splittasks, from task tid on
RECURSIVE space_splittasks(_, _, _)
space_splittasks(st, g, tid) ==
  IF st.err # "ok" \/ tid >= Len(st.tasks) THEN st
  ELSE LET r == SplitStep(st, g, tid)
       IN space_splittasks(r.st, g, r.tid)

(***************************************************************************)
(* The rest of space_maketasks: the sweep over the sort tasks, the task    *)
(* counts of the cells, the ghosts and the force tasks.                    *)
(***************************************************************************)

\* the sort tasks of the progeny of c for the directions in the flags f
KidSorts(cells, c, f) ==
  { cells[cells[c].progeny[j + 1]].sorts[i + 1] :
      j \in Kids(cells, c), i \in {d \in 0..12 : Bit(f, d)} }

\* SweepTask that removes the sort tasks of split cells only
SweepTask_split(st, k) ==
  LET tk == st.tasks[k]
      c == tk.ci
      KS == KidSorts(st.cells, c, tk.flags)
  IN IF st.err # "ok" THEN st
     ELSE IF tk.type = "sort" /\ tk.unlock = {} /\ st.cells[c].split THEN
       IF NULL \in KS THEN [st EXCEPT !.err = "segv"]
       ELSE [st EXCEPT
               !.tasks = [i \in DOMAIN @ |->
                  IF i = k THEN [@[i] EXCEPT !.type = "none"]
                  ELSE IF i \in KS THEN [@[i] EXCEPT !.unlock = @ \ {k}]
                  ELSE @[i]],
               !.cells[c].sorts = [i \in 1..14 |->
                  IF i <= 13 /\ Bit(tk.flags, i - 1) THEN NULL ELSE @[i]]]
     ELSE st

\* Remove sort tasks with no dependencies: the pass of the loop on task k
\* (1-based)
SweepTask(st, k) ==
  LET tk == st.tasks[k]
      c == tk.ci
      KS == KidSorts(st.cells, c, tk.flags)
  IN IF st.err # "ok" THEN st
     ELSE IF tk.type = "sort" /\ tk.unlock = {} THEN
       IF st.cells[c].split THEN
         IF NULL \in KS THEN [st EXCEPT !.err = "segv"]
         ELSE [st EXCEPT
                 !.tasks = [i \in DOMAIN @ |->
                    IF i = k THEN [@[i] EXCEPT !.type = "none"]
                    ELSE IF i \in KS THEN [@[i] EXCEPT !.unlock = @ \ {k}]
                    ELSE @[i]],
                 !.cells[c].sorts = [i \in 1..14 |->
                    IF i <= 13 /\ Bit(tk.flags, i - 1) THEN NULL ELSE @[i]]]
       ELSE [st EXCEPT !.tasks[k].type = "none"]
     ELSE st

\* the passes lo, lo+1, ..., hi of that loop, in this order
RECURSIVE SortSweep(_, _, _)
SortSweep(st, lo, hi) ==
  IF lo > hi THEN st
  ELSE IF lo = hi THEN SweepTask(st, lo)
  ELSE LET s1 == SortSweep(st, lo, (lo + hi) \div 2)
       IN IF s1.err # "ok" THEN s1
          ELSE SortSweep(s1, (lo + hi) \div 2 + 1, hi)

\* the cells a task counts for
TaskCells(tk) ==
  IF tk.type = "self" THEN {tk.ci}
  ELSE IF tk.type = "pair" THEN {tk.ci, tk.cj}
  ELSE IF tk.type = "sub" THEN {tk.ci, tk.cj} \ {NULL}
  ELSE {}

\* space_map_clearnrtasks on all cells, then the count of the tasks of each
\* cell and of its density tasks
CountTasks(st, g) ==
  LET live == { MapOrderTop(st.cells, g.nr_cells, 1)[n] :
                  n \in 1..Len(MapOrderTop(st.cells, g.nr_cells, 1)) }
      on(c) == { k \in 1..Len(st.tasks) : c \in TaskCells(st.tasks[k]) }
  IN [st EXCEPT !.cells =
       [c \in DOMAIN @ |->
          IF c \in live \/ on(c) # {} THEN
            [@[c] EXCEPT
               !.nr_tasks = Cardinality(on(c)),
               !.nr_density = Cardinality(
                  { k \in on(c) : st.tasks[k].subtype = "density" })]
          ELSE @[c]]]

\* the highest cell above c, c included, that has a task; c if there is none
RECURSIVE SuperOf(_, _, _)
SuperOf(cells, finger, sup) ==
  IF finger = NULL THEN sup
  ELSE SuperOf(cells, cells[finger].parent,
               IF cells[finger].nr_tasks > 0 THEN finger ELSE sup)

\* space_map_mkghosts without the link from the ghost of the parent
space_map_mkghosts_unlinked(st, c) ==
  LET sup == SuperOf(st.cells, st.cells[c].parent, c)
      s1 == [st EXCEPT !.cells[c].super = sup]
  IN IF sup # c \/ s1.cells[c].nr_tasks > 0
     THEN [space_addtask(s1, "ghost", "none", 0, c, NULL)
             EXCEPT !.cells[c].ghost = Len(s1.tasks) + 1]
     ELSE s1

\* space_map_mkghosts with a ghost only for the cells that have tasks
space_map_mkghosts_tasked(st, c) ==
  LET sup == SuperOf(st.cells, st.cells[c].parent, c)
      s1 == [st EXCEPT !.cells[c].super = sup]
      s2 == IF s1.cells[c].nr_tasks > 0
            THEN [space_addtask(s1, "ghost", "none", 0, c, NULL)
                    EXCEPT !.cells[c].ghost = Len(s1.tasks) + 1]
            ELSE s1
  IN IF sup # c
     THEN task_addunlock(s2, s2.cells[s2.cells[c].parent].ghost,
                         s2.cells[c].ghost)
     ELSE s2

\* space_map_mkghosts on one cell
space_map_mkghosts(st, c) ==
  LET sup == SuperOf(st.cells, st.cells[c].parent, c)
      s1 == [st EXCEPT !.cells[c].super = sup]
      s2 == IF sup # c \/ s1.cells[c].nr_tasks > 0
            THEN [space_addtask(s1, "ghost", "none", 0, c, NULL)
                    EXCEPT !.cells[c].ghost = Len(s1.tasks) + 1]
            ELSE s1
  IN IF sup # c
     THEN task_addunlock(s2, s2.cells[s2.cells[c].parent].ghost,
                         s2.cells[c].ghost)
     ELSE s2

\* space_map_cells( s , 1 , &space_map_mkghosts , s ): the calls on the cells
\* order[lo], ..., order[hi], in this order
RECURSIVE MkGhosts(_, _, _, _)
MkGhosts(st, order, lo, hi) ==
  IF lo > hi THEN st
  ELSE IF lo = hi THEN space_map_mkghosts(st, order[lo])
  ELSE LET s1 == MkGhosts(st, order, lo, (lo + hi) \div 2)
       IN IF s1.err # "ok" THEN s1
          ELSE MkGhosts(s1, order, (lo + hi) \div 2 + 1, hi)

\* the force task of the density task k, hung below the ghosts of the super
\* cells instead of the ghosts of its own cells
ForceTwin_super(st, k) ==
  LET tk == st.tasks[k]
      cs == st.cells
      s1 == task_addunlock(st, k, cs[cs[tk.ci].super].ghost)
      s2 == IF tk.cj # NULL
            THEN task_addunlock(s1, k, cs[cs[tk.cj].super].ghost) ELSE s1
      s3 == space_addtask(s2, tk.type, "force",
                          IF tk.type = "sub" THEN tk.flags ELSE 0, tk.ci, tk.cj)
      t2 == Len(s3.tasks)
      s4 == task_addunlock(s3, cs[cs[tk.ci].super].ghost, t2)
  IN IF tk.cj # NULL
     THEN task_addunlock(s4, cs[cs[tk.cj].super].ghost, t2) ELSE s4

\* the force task of the density task k and its links to the ghosts
ForceTwin(st, k) ==
  LET tk == st.tasks[k]
      cs == st.cells
      s1 == task_addunlock(st, k, cs[cs[tk.ci].super].ghost)
      s2 == IF tk.cj # NULL
            THEN task_addunlock(s1, k, cs[cs[tk.cj].super].ghost) ELSE s1
      s3 == space_addtask(s2, tk.type, "force",
                          IF tk.type = "sub" THEN tk.flags ELSE 0, tk.ci, tk.cj)
      t2 == Len(s3.tasks)
      s4 == task_addunlock(s3, cs[tk.ci].ghost, t2)
  IN IF tk.cj # NULL THEN task_addunlock(s4, cs[tk.cj].ghost, t2) ELSE s4

\* is task tk one the loop over the density tasks acts on?
IsDensityTask(tk) ==
  tk.type \in {"self", "pair", "sub"} /\ tk.subtype = "density"

\* the passes lo, ..., hi (1-based) of the loop that makes the force tasks,
\* in this order; the tasks the loop appends are force tasks, which it skips
RECURSIVE MakeForce(_, _, _)
MakeForce(st, lo, hi) ==
  IF lo > hi THEN st
  ELSE IF lo = hi
    THEN IF IsDensityTask(st.tasks[lo]) THEN ForceTwin(st, lo) ELSE st
  ELSE LET s1 == MakeForce(st, lo, (lo + hi) \div 2)
       IN IF s1.err # "ok" THEN s1
          ELSE MakeForce(s1, (lo + hi) \div 2 + 1, hi)

\* Allocate the task-list, if needed: the list is emptied, and when the
\* array is freed for a larger one every task pointer a cell still holds
\* comes to point into the freed array
AllocTasks(st, g) ==
  IF st.tasks_size = 0 \/ st.tasks_size < g.tot_cells * 43
  THEN [st EXCEPT
          !.tasks = <<>>,
          !.tasks_size = g.tot_cells * 43,
          !.cells = [c \in DOMAIN @ |->
                       [@[c] EXCEPT
                          !.sorts = [k \in 1..14 |->
                                       IF @[k] = NULL THEN NULL ELSE Dangling],
                          !.ghost = IF @ = NULL THEN NULL ELSE Dangling]]]
  ELSE [st EXCEPT !.tasks = <<>>]

\* space_maketasks( s , 1 ) on the build state st
space_maketasks(st, g) ==
  LET s0 == AllocTasks(st, g)
      s1 == SortAllCells(s0, g, 1)
      s2 == BaseTasks(s1, g, 0)
      s3 == space_splittasks(s2, g, 0)
      s4 == SortSweep(s3, 1, Len(s3.tasks))
      s5 == CountTasks(s4, g)
      s6 == MkGhosts(s5, MapOrderTop(s5.cells, g.nr_cells, 1), 1,
                    Len(MapOrderTop(s5.cells, g.nr_cells, 1)))
  IN IF s3.err # "ok" THEN s3
     ELSE IF s4.err # "ok" THEN s4
     ELSE MakeForce(s6, 1, Len(s6.tasks))

(***************************************************************************)
(* Cell trees for the graph build.  A tree is described by the particles   *)
(* of its leaves: a leaf [n, hm] holds n particles of smoothing length hm, *)
(* a split cell holds its eight progeny; a progeny without particles is    *)
(* NULL in the tree (space_split recycles it).                             *)
(***************************************************************************)
Nil == [n |-> 0, hm |-> 0, kids |-> <<>>]
Lf(n, hm) == [n |-> n, hm |-> hm, kids |-> <<>>]
Sp(kids) == [n |-> 0, hm |-> 0, kids |-> kids]
All8(d) == [k \in 1..8 |-> d]
Only(K, d) == [k \in 1..8 |-> IF k - 1 \in K THEN d ELSE Nil]

RECURSIVE DCount(_), DHmax(_), DSmall(_, _)
\* number of particles of the tree d
DCount(d) ==
  IF d.kids = <<>> THEN d.n
  ELSE DCount(d.kids[1]) + DCount(d.kids[2]) + DCount(d.kids[3])
       + DCount(d.kids[4]) + DCount(d.kids[5]) + DCount(d.kids[6])
       + DCount(d.kids[7]) + DCount(d.kids[8])
\* largest smoothing length in d
DHmax(d) ==
  IF d.kids = <<>> THEN d.hm
  ELSE Max(Max(Max(DHmax(d.kids[1]), DHmax(d.kids[2])),
               Max(DHmax(d.kids[3]), DHmax(d.kids[4]))),
           Max(Max(DHmax(d.kids[5]), DHmax(d.kids[6])),
               Max(DHmax(d.kids[7]), DHmax(d.kids[8]))))
\* number of particles of d with 2 * h <= lim2
DSmall(d, lim2) ==
  IF d.kids = <<>> THEN (IF 2 * d.hm <= lim2 THEN d.n ELSE 0)
  ELSE DSmall(d.kids[1], lim2) + DSmall(d.kids[2], lim2)
       + DSmall(d.kids[3], lim2) + DSmall(d.kids[4], lim2)
       + DSmall(d.kids[5], lim2) + DSmall(d.kids[6], lim2)
       + DSmall(d.kids[7], lim2) + DSmall(d.kids[8], lim2)

\* Split or let it be?  (space_split on count particles, small of them with
\* h <= h_limit)
SplitTest(small, count, splitsize) ==
  small * SplitRatioDen > count * SplitRatioNum /\ count > splitsize

\* Un-split?  (space_rebuild_recurse)
UnsplitTest(small, count, splitsize) ==
  small * SplitRatioDen < count * SplitRatioNum \/ count < splitsize

\* d is a tree that space_rebuild leaves on a cell of sides h
RECURSIVE ValidTree(_, _, _)
ValidTree(d, h, splitsize) ==
  IF d.kids = <<>>
  THEN ~SplitTest(DSmall(d, Min3(h)), d.n, splitsize)
  ELSE /\ ~UnsplitTest(DSmall(d, Min3(h)), DCount(d), splitsize)
       /\ \A k \in 1..8 :
            ValidTree(d.kids[k], [a \in 1..3 |-> h[a] \div 2], splitsize)

\* A cell of a drawn tree is named by its path << top-level cell (1-based),
\* progeny index, progeny index >>; drawn trees have at most two levels of
\* progeny.  The paths of the cells of the tree d below the path p:
RECURSIVE PathsOf(_, _)
PathsOf(d, p) ==
  {p} \cup (IF d.kids = <<>> THEN {}
            ELSE UNION { PathsOf(d.kids[k + 1], Append(p, k)) :
                           k \in {j \in 0..7 : DCount(d.kids[j + 1]) > 0} })

\* the address of the cell at path p
AddrOf(p) ==
  IF Len(p) = 1 THEN p[1]
  ELSE PoolBase + 72 * (p[1] - 1) + 9 * p[2] + 1
       + (IF Len(p) = 3 THEN p[3] + 1 ELSE 0)

\* the tree at path p of the forest f
RECURSIVE DescAt(_, _, _)
DescAt(d, p, n) == IF n > Len(p) THEN d ELSE DescAt(d.kids[p[n] + 1], p, n + 1)

\* the cell at path p: progeny k of a cell has half its sides and is
\* shifted along x if k & 4, y if k & 2, z if k & 1
CellAt(f, cd, h, p) ==
  LET d == DescAt(f[p[1]], p, 2)
      cid == p[1] - 1
      top == << (cid \div (cd[2] * cd[3])) * h[1],
                ((cid \div cd[3]) % cd[2]) * h[2],
                (cid % cd[3]) * h[3] >>
      bit(k, a) == IF a = 1 THEN (k \div 4) % 2
                   ELSE IF a = 2 THEN (k \div 2) % 2 ELSE k % 2
      depth == Len(p) - 1
      hh == [a \in 1..3 |-> h[a] \div (2 ^ depth)]
      loc == [a \in 1..3 |->
                top[a]
                + (IF depth >= 1 THEN bit(p[2], a) * (h[a] \div 2) ELSE 0)
                + (IF depth >= 2 THEN bit(p[3], a) * (h[a] \div 4) ELSE 0)]
  IN [ZeroCell EXCEPT
        !.loc = loc, !.h = hh, !.depth = depth,
        !.count = DCount(d), !.h_max = DHmax(d), !.split = (d.kids # <<>>),
        !.parent = IF depth = 0 THEN NULL ELSE AddrOf(SubSeq(p, 1, depth)),
        !.progeny = [k \in 1..8 |->
           IF d.kids # <<>> /\ DCount(d.kids[k]) > 0
           THEN AddrOf(Append(p, k - 1)) ELSE NULL]]

\* the cells of the grid cd of cells of sides h with the trees f
TreeCells(f, cd, h) ==
  LET P == UNION { PathsOf(f[c], <<c>>) : c \in 1..(cd[1] * cd[2] * cd[3]) }
  IN [id \in {AddrOf(p) : p \in P} |->
        CellAt(f, cd, h, CHOOSE p \in P : AddrOf(p) = id)]

\* sides of the top-level cells of the drawn trees
TopH == <<8, 8, 8>>

\* the trees drawn for a top-level cell
Shapes ==
  << Lf(300, 3),
    Sp(Only({0, 7}, Lf(1200, 3))),
    Sp(All8(Lf(650, 3))),
    Sp(All8(Lf(60, 4))),
    Sp([k \in 1..8 |-> IF k = 8 THEN Sp(All8(Lf(60, 1))) ELSE Lf(60, 1)]) >>

\* tree number n of Shapes, number 0 is the cell without particles
Shape(n) == IF n = 0 THEN Nil ELSE Shapes[n]

\* the grids drawn
Grids ==
  { cd \in (1..MaxTopCells) \X (1..MaxTopCells) \X (1..MaxTopCells) :
      cd[1] * cd[2] * cd[3] <= MaxTopCells }

\* the values of the global space_subsize drawn
SubSizes == {400, 5000}
\* the value of the global space_splitsize (space_splitsize_default)
SplitSizeDefault == 400

(***************************************************************************)
(* space_rebuild.  A rebuild state rs holds the fields of the space the    *)
(* rebuild works on: cells, parts, cparts, cells_new, tot_cells, maxdepth, *)
(* dim, cdim, nr_cells, the global space_splitsize, the changes counted so *)
(* far and err; thread is the iteration of the parallel loop the rebuild   *)
(* is in, 0 outside the loop, and log lists the accesses of the iterations *)
(* to the space.  A particle is [id, x, h, dt], a condensed particle is    *)
(* [x, h, dt]; c->parts and c->cparts are the offset first of the cell in  *)
(* both arrays.  Lengths are whole numbers: the sides of the cells drawn   *)
(* are powers of two and the particles sit on whole coordinates.           *)
(*                                                                         *)
(* cells_new, the buffer of free cells, is the list of the recycled cells, *)
(* stack, followed by the left cells of the last chunk that were never     *)
(* handed out, the first of them at the address fresh.                     *)
(***************************************************************************)

\* cells allocated at a time
space_cellallocchunk == 1000

Reverse(L) == [n \in 1..Len(L) |-> L[Len(L) + 1 - n]]

\* Pick off the next cell of the buffer fl (a new chunk is allocated if the
\* buffer is empty): the result holds the buffer left and the cell
PickCell(fl) ==
  LET f1 == IF fl.stack = <<>> /\ fl.left = 0
            THEN [fl EXCEPT !.left = space_cellallocchunk] ELSE fl
  IN IF f1.stack # <<>>
     THEN [ fl |-> [f1 EXCEPT !.stack = Tail(@)], c |-> Head(f1.stack) ]
     ELSE [ fl |-> [f1 EXCEPT !.fresh = @ + 1, !.left = @ - 1],
            c |-> f1.fresh ]

\* Hook the cell c into the buffer fl.
HookCell(fl, c) == [fl EXCEPT !.stack = <<c>> \o @]

\* space_getcell: the result holds the rebuild state and the cell handed
\* out.  In the parallel loop the call is written to the log and the cell
\* is named -n, n the number of the entry
space_getcell(rs) ==
  LET r == PickCell(rs.cells_new)
      c == IF rs.thread = 0 THEN r.c ELSE 0 - (Len(rs.log) + 1)
      r1 == [rs EXCEPT !.cells = [a \in (DOMAIN @) \cup {c} |->
                                    IF a = c THEN ZeroCell ELSE @[a]]]
  IN [ rs |-> IF rs.thread = 0
              THEN [r1 EXCEPT !.cells_new = r.fl, !.tot_cells = @ + 1]
              ELSE [r1 EXCEPT !.log = Append(@, <<rs.thread, "get", c>>)],
       c |-> c ]

\* space_recycle on the cells L[1], L[2], ... in this order
RecycleAll(rs, L) ==
  LET r1 == [rs EXCEPT !.cells =
               [a \in DOMAIN @ |->
                  IF \E n \in 1..Len(L) : L[n] = a THEN ZeroCell ELSE @[a]]]
  IN IF rs.thread = 0
     THEN [r1 EXCEPT !.cells_new.stack = Reverse(L) \o @,
                     !.tot_cells = @ - Len(L)]
     ELSE [r1 EXCEPT !.log = @ \o [n \in 1..Len(L) |->
                                     <<rs.thread, "recycle", L[n]>>]]

\* Check the depth: if ( c->depth > s->maxdepth ) s->maxdepth = c->depth.
\* In the parallel loop the read and the write are two entries of the log;
\* a cell of depth 0 is above no value of s->maxdepth
CheckDepth(rs, d) ==
  IF rs.thread = 0 THEN [rs EXCEPT !.maxdepth = Max(@, d)]
  ELSE IF d = 0 THEN rs
  ELSE [rs EXCEPT !.log = @ \o << <<rs.thread, "read", d>>,
                                  <<rs.thread, "write", d>> >>]

\* space_recycle
space_recycle(rs, c) == RecycleAll(rs, <<c>>)

\* the cells space_rebuild_recycle( s , c ) recycles, in the order it does
RECURSIVE Dismantled(_, _)
Dismantled(cells, c) ==
  LET sub(k) == IF cells[c].progeny[k + 1] = NULL THEN <<>>
                ELSE Dismantled(cells, cells[c].progeny[k + 1])
                     \o << cells[c].progeny[k + 1] >>
  IN IF cells[c].split
     THEN sub(0) \o sub(1) \o sub(2) \o sub(3)
          \o sub(4) \o sub(5) \o sub(6) \o sub(7)
     ELSE <<>>

\* space_rebuild_recycle: Recursively dismantle a cell tree.
space_rebuild_recycle(rs, c) ==
  IF rs.cells[c].split
  THEN [RecycleAll(rs, Dismantled(rs.cells, c))
          EXCEPT !.cells[c].progeny = Nil8]
  ELSE rs

\* a new cell for the progeny k of c
NewProgeny(rs, c, k) ==
  LET r == space_getcell(rs)
      p == rs.cells[c]
      hh == [a \in 1..3 |-> p.h[a] \div 2]
      bit == << (k \div 4) % 2, (k \div 2) % 2, k % 2 >>
  IN [r.rs EXCEPT
        !.cells[r.c] = [ZeroCell EXCEPT
                          !.loc = [a \in 1..3 |-> p.loc[a] + bit[a] * hh[a]],
                          !.h = hh,
                          !.depth = p.depth + 1,
                          !.parent = c],
        !.cells[c].progeny[k + 1] = r.c]

\* new cells for the progeny lo, ..., hi of c, in this order: for all of
\* them (space_split), or for those that are NULL (space_rebuild_recurse)
RECURSIVE Populate(_, _, _, _, _)
Populate(rs, c, all, lo, hi) ==
  IF lo < hi
  THEN LET r1 == Populate(rs, c, all, lo, (lo + hi) \div 2)
       IN IF r1.err # "ok" THEN r1
          ELSE Populate(r1, c, all, (lo + hi) \div 2 + 1, hi)
  ELSE IF all \/ rs.cells[c].progeny[lo + 1] = NULL
    THEN NewProgeny(rs, c, lo)
  ELSE rs

\* the progeny (0..7) of a cell with the middle pivot a particle at x is in
Octant(x, pivot) ==
  4 * (IF x[1] >= pivot[1] THEN 1 ELSE 0)
  + 2 * (IF x[2] >= pivot[2] THEN 1 ELSE 0)
  + (IF x[3] >= pivot[3] THEN 1 ELSE 0)

\* cell_split: sort the parts and the cparts of c into its eight progeny
cell_split(rs, c) ==
  LET cl == rs.cells[c]
      pivot == [a \in 1..3 |-> cl.loc[a] + cl.h[a] \div 2]
      oct(n) == Octant(rs.parts[n].x, pivot)
      idx == [n \in 1..cl.count |-> cl.first + n]
      of(k) == SelectSeq(idx, LAMBDA n : oct(n) = k)
      order == of(0) \o of(1) \o of(2) \o of(3)
               \o of(4) \o of(5) \o of(6) \o of(7)
      before(k) == Cardinality({ n \in 1..cl.count : oct(cl.first + n) < k })
      moved(A) == [n \in DOMAIN A |->
                     IF n > cl.first /\ n <= cl.first + cl.count
                     THEN A[order[n - cl.first]] ELSE A[n]]
  IN [rs EXCEPT
        !.parts = moved(@),
        !.cparts = moved(@),
        !.cells = [a \in DOMAIN @ |->
           IF \E k \in 0..7 : cl.progeny[k + 1] = a
           THEN LET k == CHOOSE k \in 0..7 : cl.progeny[k + 1] = a
                IN [@[a] EXCEPT !.count = Len(of(k)),
                                !.first = cl.first + before(k)]
           ELSE @[a]]]

\* the cparts of the cell record cl
CellCparts(rs, cl) ==
  [n \in 1..cl.count |-> rs.cparts[cl.first + n]]

\* Count the particles below h_limit.
SmallCount(P, h) ==
  Cardinality({ n \in 1..Len(P) : 2 * P[n].h <= Min3(h) })

\* the largest h of the particles P, 0 if there is none
MaxH(P) ==
  IF P = <<>> THEN 0
  ELSE CHOOSE m \in { P[n].h : n \in 1..Len(P) } :
         \A n \in 1..Len(P) : P[n].h <= m

RECURSIVE space_split(_, _), SplitProgeny(_, _, _, _)
\* space_split that also splits a cell of which exactly count * splitRatio
\* particles are small
space_split_atratio(rs, c) ==
  LET cl == rs.cells[c]
      P == CellCparts(rs, cl)
      r1 == [CheckDepth(rs, cl.depth) EXCEPT !.cells[c].h_max = MaxH(P)]
      r2 == [Populate(r1, c, TRUE, 0, 7) EXCEPT !.cells[c].split = TRUE]
      r3 == SplitProgeny(cell_split(r2, c), c, 0, 7)
      E == SelectSeq(r3.cells[c].progeny, LAMBDA p : r3.cells[p].count = 0)
  IN IF /\ SmallCount(P, cl.h) * SplitRatioDen >= cl.count * SplitRatioNum
        /\ cl.count > rs.splitsize
     THEN [RecycleAll(r3, E) EXCEPT
             !.cells[c].progeny =
                [k \in 1..8 |-> IF r3.cells[@[k]].count = 0 THEN NULL ELSE @[k]]]
     ELSE [r1 EXCEPT !.cells[c].progeny = Nil8, !.cells[c].split = FALSE]

\* space_split that also removes the progeny holding a single particle
space_split_single(rs, c) ==
  LET cl == rs.cells[c]
      P == CellCparts(rs, cl)
      r1 == [CheckDepth(rs, cl.depth) EXCEPT !.cells[c].h_max = MaxH(P)]
      r2 == [Populate(r1, c, TRUE, 0, 7) EXCEPT !.cells[c].split = TRUE]
      r3 == SplitProgeny(cell_split(r2, c), c, 0, 7)
      E == SelectSeq(r3.cells[c].progeny, LAMBDA p : r3.cells[p].count <= 1)
  IN IF SplitTest(SmallCount(P, cl.h), cl.count, rs.splitsize)
     THEN [RecycleAll(r3, E) EXCEPT
             !.cells[c].progeny =
                [k \in 1..8 |-> IF r3.cells[@[k]].count <= 1 THEN NULL ELSE @[k]]]
     ELSE [r1 EXCEPT !.cells[c].progeny = Nil8, !.cells[c].split = FALSE]

\* space_split: Split cells that contain too many particles.
space_split(rs, c) ==
  LET cl == rs.cells[c]
      P == CellCparts(rs, cl)
      r1 == [CheckDepth(rs, cl.depth) EXCEPT !.cells[c].h_max = MaxH(P)]
      r2 == [Populate(r1, c, TRUE, 0, 7) EXCEPT !.cells[c].split = TRUE]
      r3 == SplitProgeny(cell_split(r2, c), c, 0, 7)
      E == SelectSeq(r3.cells[c].progeny, LAMBDA p : r3.cells[p].count = 0)
  IN IF SplitTest(SmallCount(P, cl.h), cl.count, rs.splitsize)
     THEN [RecycleAll(r3, E) EXCEPT
             !.cells[c].progeny =
                [k \in 1..8 |-> IF r3.cells[@[k]].count = 0 THEN NULL ELSE @[k]]]
     ELSE [r1 EXCEPT !.cells[c].progeny = Nil8, !.cells[c].split = FALSE]

\* space_split on the progeny lo, ..., hi of c, in this order
SplitProgeny(rs, c, lo, hi) ==
  IF lo < hi
  THEN LET r1 == SplitProgeny(rs, c, lo, (lo + hi) \div 2)
       IN IF r1.err # "ok" THEN r1
          ELSE SplitProgeny(r1, c, (lo + hi) \div 2 + 1, hi)
  ELSE space_split(rs, rs.cells[c].progeny[lo + 1])

RECURSIVE space_rebuild_recurse(_, _), RecurseProgeny(_, _, _, _)
\* space_rebuild_recurse that leaves c->h_max of a split cell as it was
space_rebuild_recurse_stale(rs, c) ==
  LET cl == rs.cells[c]
      P == CellCparts(rs, cl)
      r1 == CheckDepth(rs, cl.depth)
      wasmt == { k \in 0..7 : cl.progeny[k + 1] = NULL }
      r3 == cell_split(Populate(r1, c, FALSE, 0, 7), c)
      pr == r3.cells[c].progeny
      gone == { k \in 0..7 : r3.cells[pr[k + 1]].count = 0 }
      r4 == [RecycleAll(r3, SelectSeq(pr, LAMBDA p : r3.cells[p].count = 0))
               EXCEPT
                 !.cells[c].progeny =
                    [k \in 1..8 |-> IF k - 1 \in gone THEN NULL ELSE @[k]],
                 !.changes = @ + Cardinality(gone \ wasmt)
                               + Cardinality(wasmt \ gone)]
      r5 == space_split(rs, c)
  IN IF cl.split THEN
       IF UnsplitTest(SmallCount(P, cl.h), cl.count, rs.splitsize)
       THEN [space_rebuild_recycle(r1, c) EXCEPT !.cells[c].split = FALSE]
       ELSE RecurseProgeny(r4, c, 0, 7)
     ELSE [r5 EXCEPT !.changes = @ + (IF r5.cells[c].split THEN 1 ELSE 0)]

\* space_rebuild_recurse: Recursively rebuild a cell tree; the changes it
\* returns are added to rs.changes
space_rebuild_recurse(rs, c) ==
  LET cl == rs.cells[c]
      P == CellCparts(rs, cl)
      r1 == [CheckDepth(rs, cl.depth) EXCEPT !.cells[c].h_max = MaxH(P)]
      wasmt == { k \in 0..7 : cl.progeny[k + 1] = NULL }
      r3 == cell_split(Populate(r1, c, FALSE, 0, 7), c)
      pr == r3.cells[c].progeny
      gone == { k \in 0..7 : r3.cells[pr[k + 1]].count = 0 }
      r4 == [RecycleAll(r3, SelectSeq(pr, LAMBDA p : r3.cells[p].count = 0))
               EXCEPT
                 !.cells[c].progeny =
                    [k \in 1..8 |-> IF k - 1 \in gone THEN NULL ELSE @[k]],
                 !.changes = @ + Cardinality(gone \ wasmt)
                               + Cardinality(wasmt \ gone)]
      r5 == space_split(rs, c)
  IN IF cl.split THEN
       IF UnsplitTest(SmallCount(P, cl.h), cl.count, rs.splitsize)
       THEN [space_rebuild_recycle(r1, c) EXCEPT !.cells[c].split = FALSE]
       ELSE RecurseProgeny(r4, c, 0, 7)
     ELSE [r5 EXCEPT !.changes = @ + (IF r5.cells[c].split THEN 1 ELSE 0)]

\* space_rebuild_recurse on the non-NULL progeny lo, ..., hi of c
RecurseProgeny(rs, c, lo, hi) ==
  IF lo < hi
  THEN LET r1 == RecurseProgeny(rs, c, lo, (lo + hi) \div 2)
       IN IF r1.err # "ok" THEN r1
          ELSE RecurseProgeny(r1, c, (lo + hi) \div 2 + 1, hi)
  ELSE IF rs.cells[c].progeny[lo + 1] # NULL
    THEN space_rebuild_recurse(rs, rs.cells[c].progeny[lo + 1])
  ELSE rs

(***************************************************************************)
(* parts_sort on the N entries from the offset off (0-based) of the arrays *)
(* a.ind and a.parts; the indices i, j, k below are those of the code.     *)
(***************************************************************************)

\* the inner loop of the insert sort: entries move up until j is the place
\* of temp_i; the result holds the arrays and j
RECURSIVE InsertShift(_, _, _, _)
InsertShift(a, off, j, temp_i) ==
  IF j > 0 /\ a.ind[off + j] > temp_i
  THEN InsertShift([a EXCEPT !.ind[off + j + 1] = a.ind[off + j],
                             !.parts[off + j + 1] = a.parts[off + j]],
                   off, j - 1, temp_i)
  ELSE [a |-> a, j |-> j]

\* the insert sort from the pass i on; j is what the passes before left
RECURSIVE InsertSort(_, _, _, _, _)
InsertSort(a, off, N, i, j) ==
  IF i >= N THEN a
  ELSE IF a.ind[off + i + 1] < a.ind[off + i] THEN
    LET temp_i == a.ind[off + i + 1]
        temp_p == a.parts[off + j + 1]
        r == InsertShift(a, off, i, temp_i)
    IN InsertSort([r.a EXCEPT !.ind[off + r.j + 1] = temp_i,
                              !.parts[off + r.j + 1] = temp_p],
                  off, N, i + 1, r.j)
  ELSE InsertSort(a, off, N, i + 1, j)

\* a pass of quicksort in which j also goes past the entries equal to pivot
RECURSIVE Partition_pastequal(_, _, _, _, _, _)
Partition_pastequal(a, off, N, pivot, i, j) ==
  LET up == { k \in i..(N - 1) : a.ind[off + k + 1] > pivot }
      i2 == IF up = {} THEN Max(i, N) ELSE CHOOSE k \in up : \A m \in up : k <= m
      dn == { k \in 0..j : a.ind[off + k + 1] < pivot }
      j2 == IF dn = {} THEN Min(j, -1) ELSE CHOOSE k \in dn : \A m \in dn : k >= m
  IN IF i >= j THEN [a |-> a, i |-> i, j |-> j]
     ELSE IF i2 < j2
       THEN Partition_pastequal(
                      [a EXCEPT !.ind[off + i2 + 1] = a.ind[off + j2 + 1],
                                !.ind[off + j2 + 1] = a.ind[off + i2 + 1],
                                !.parts[off + i2 + 1] = a.parts[off + j2 + 1],
                                !.parts[off + j2 + 1] = a.parts[off + i2 + 1]],
                      off, N, pivot, i2, j2)
     ELSE [a |-> a, i |-> i2, j |-> j2]

\* One pass of quicksort: the result holds the arrays, i and j
RECURSIVE Partition(_, _, _, _, _, _)
Partition(a, off, N, pivot, i, j) ==
  LET up == { k \in i..(N - 1) : a.ind[off + k + 1] > pivot }
      i2 == IF up = {} THEN Max(i, N) ELSE CHOOSE k \in up : \A m \in up : k <= m
      dn == { k \in 0..j : a.ind[off + k + 1] <= pivot }
      j2 == IF dn = {} THEN Min(j, -1) ELSE CHOOSE k \in dn : \A m \in dn : k >= m
  IN IF i >= j THEN [a |-> a, i |-> i, j |-> j]
     ELSE IF i2 < j2
       THEN Partition([a EXCEPT !.ind[off + i2 + 1] = a.ind[off + j2 + 1],
                                !.ind[off + j2 + 1] = a.ind[off + i2 + 1],
                                !.parts[off + i2 + 1] = a.parts[off + j2 + 1],
                                !.parts[off + j2 + 1] = a.parts[off + i2 + 1]],
                      off, N, pivot, i2, j2)
     ELSE [a |-> a, i |-> i2, j |-> j2]

RECURSIVE parts_sort(_, _, _, _, _)
parts_sort(a, off, N, min, max) ==
  LET pivot == (min + max) \div 2
      r == Partition(a, off, N, pivot, 0, N - 1)
      failed == \/ \E k \in 0..r.j : r.a.ind[off + k + 1] > pivot
                \/ \E k \in (r.j + 1)..(N - 1) : r.a.ind[off + k + 1] <= pivot
      left == IF r.j > 0 /\ pivot > min
              THEN parts_sort(r.a, off, r.j + 1, min, pivot) ELSE r.a
  IN IF N < 16 THEN InsertSort(a, off, N, 1, N - 1)
     ELSE IF failed THEN [r.a EXCEPT !.err = "abort"]
     ELSE IF left.err # "ok" THEN left
     ELSE IF r.i < N /\ pivot + 1 < max
       THEN parts_sort(left, off + r.i, N - r.i, pivot + 1, max)
     ELSE left

(***************************************************************************)
(* space_rebuild                                                           *)
(***************************************************************************)

\* the cells the rebuild of the upper-level cells recycles, from top-level
\* cell k (1-based) on
RECURSIVE DismantledTop(_, _, _)
DismantledTop(cells, nr, k) ==
  IF k > nr THEN <<>>
  ELSE Dismantled(cells, k) \o DismantledTop(cells, nr, k + 1)

\* putative cell dimensions that leave the smoothing lengths out
PutativeCdim_cellmax(dm, hmax, cell_max) ==
  [k \in 1..3 |-> dm[k] \div cell_max]

\* the putative cell dimensions for the largest h of the parts and cell_max
PutativeCdim(dm, hmax, cell_max) ==
  [k \in 1..3 |->
     IF hmax * StretchNum >= cell_max * StretchDen
     THEN (dm[k] * StretchDen) \div (hmax * StretchNum)
     ELSE dm[k] \div cell_max]

\* Free the old cells and allocate the highest level of cells.
Regrid(rs, cd) ==
  LET r1 == RecycleAll(rs, DismantledTop(rs.cells, rs.nr_cells, 1))
      n == cd[1] * cd[2] * cd[3]
      hh == [k \in 1..3 |-> rs.dim[k] \div cd[k]]
      top(id) == [ZeroCell EXCEPT
                    !.loc = << ((id - 1) \div (cd[2] * cd[3])) * hh[1],
                               (((id - 1) \div cd[3]) % cd[2]) * hh[2],
                               ((id - 1) % cd[3]) * hh[3] >>,
                    !.h = hh]
  IN [r1 EXCEPT
        !.maxdepth = IF rs.nr_cells > 0 THEN 0 ELSE @,
        !.cdim = cd,
        !.nr_cells = n,
        !.tot_cells = n,
        !.cells = [a \in ((DOMAIN @) \ (1..rs.nr_cells)) \cup (1..n) |->
                     IF a <= n THEN top(a) ELSE @[a]],
        !.changes = 1]

\* the cell index of a particle at x; s->ih[k] is 0 on an axis without cells
BinOf(rs, x) ==
  LET at(k) == IF rs.cdim[k] = 0 THEN 0
               ELSE x[k] \div (rs.dim[k] \div rs.cdim[k])
  IN cell_getid(rs.cdim, at(1), at(2), at(3))

(***************************************************************************)
(* The loop over the top-level cells is an omp parallel for: with a thread *)
(* for every iteration the calls of space_getcell and space_recycle and    *)
(* the reads and writes of s->maxdepth of the iterations interleave in any *)
(* order.  What an iteration writes to the cells of its tree and to its    *)
(* particles does not depend on the other iterations; the addresses of the *)
(* cells it is handed do.  The work of every iteration is laid out before  *)
(* the loop, with every access to the space written to the log rs.log as   *)
(* << iteration, access, argument >> and the cells it is handed named as   *)
(* in the log.  In the loop the iterations do their accesses one at a      *)
(* time on the buffer of free cells, s->tot_cells and s->maxdepth; a call  *)
(* of space_getcell or space_recycle is one step, as s->lock keeps the     *)
(* calls apart.  After the loop the cells named in the log are at the      *)
(* addresses the calls have handed out.                                    *)
(***************************************************************************)

\* space_rebuild_recurse on the top-level cells lo, ..., hi (1-based), each
\* as an iteration of the loop
RECURSIVE RecurseTop(_, _, _)
RecurseTop(rs, lo, hi) ==
  IF lo > hi THEN rs
  ELSE IF lo = hi THEN space_rebuild_recurse([rs EXCEPT !.thread = lo], lo)
  ELSE LET r1 == RecurseTop(rs, lo, (lo + hi) \div 2)
       IN IF r1.err # "ok" THEN r1
          ELSE RecurseTop(r1, (lo + hi) \div 2 + 1, hi)

\* the accesses of every iteration of the log, in the order of its code
Traces(log) ==
  [k \in { log[n][1] : n \in 1..Len(log) } |->
     SelectSeq(log, LAMBDA e : e[1] = k)]

\* the space the loop works on, before the first access: fl is the buffer of
\* free cells s->cells_new, tot is s->tot_cells, at[v] the address of the
\* cell named v in the log, owner[a] the name in the log of the cell last
\* handed out at address a or NULL when bzero has cleared the cell at a
\* since, ip[k] the next access of iteration k
LoopStart(rs, tr) ==
  [ fl |-> rs.cells_new, tot |-> rs.tot_cells, maxdepth |-> rs.maxdepth,
    at |-> <<>>, owner |-> <<>>,
    ip |-> [k \in DOMAIN tr |-> 1] ]

\* iteration k does its next access on the space q of the loop; the store
\* to s->maxdepth is an access of its own, which the iteration comes to if
\* the comparison before it has found the depth above s->maxdepth
Access(q, tr, k) ==
  LET e == tr[k][q.ip[k]]
      adv == [q EXCEPT !.ip[k] = @ + 1]
      got == PickCell(q.fl)
      real == IF e[3] < 0 THEN q.at[e[3]] ELSE e[3]
  IN IF e[2] = "get"
     THEN [adv EXCEPT !.fl = got.fl, !.tot = @ + 1,
                      !.at = (e[3] :> got.c) @@ @,
                      !.owner = (got.c :> e[3]) @@ @]
     ELSE IF e[2] = "recycle"
     THEN [adv EXCEPT !.fl = HookCell(@, real), !.tot = @ - 1,
                      !.owner = (real :> NULL) @@ @]
     ELSE IF e[2] = "read"
     THEN IF e[3] > q.maxdepth THEN adv ELSE [q EXCEPT !.ip[k] = @ + 2]
     ELSE [adv EXCEPT !.maxdepth = e[3]]

\* the space after the loop: r is the state the iterations leave with the
\* cells as the log names them, q the space of the loop after the last
\* access
LoopEnd(r, q) ==
  LET real(a) == IF a < 0 THEN q.at[a] ELSE a
      moved(cl) == [cl EXCEPT !.progeny = [k \in 1..8 |-> real(@[k])],
                              !.parent = real(@)]
      data(a) == IF a \notin DOMAIN q.owner THEN r.cells[a]
                 ELSE IF q.owner[a] = NULL THEN ZeroCell
                 ELSE r.cells[q.owner[a]]
  IN [r EXCEPT
        !.cells = [a \in { x \in DOMAIN @ : x > 0 } \cup DOMAIN q.owner |->
                     moved(data(a))],
        !.cells_new = q.fl,
        !.tot_cells = q.tot,
        !.maxdepth = q.maxdepth,
        !.log = <<>>,
        !.thread = 0]

\* space_rebuild up to the parallel loop, with the work of the iterations
\* of the loop laid out: the states the call can come to, rs.changes the
\* changes counted and rs.log the accesses of the iterations to the space.
\* With no cell on an axis the particles are counted into s->cells[0] of an
\* array without entries: the write stops the program or goes unnoticed
space_rebuild(rs, force, cell_max) ==
  LET cd == PutativeCdim(rs.dim, MaxH(rs.parts), cell_max)
      r1 == IF force # 0 \/ \E k \in 1..3 : cd[k] < rs.cdim[k]
            THEN Regrid(rs, cd) ELSE [rs EXCEPT !.changes = 0]
      ind == [k \in 1..Len(r1.parts) |-> BinOf(r1, r1.parts[k].x)]
      count(c) == Cardinality({ k \in 1..Len(ind) : ind[k] = c - 1 })
      r2(srt) ==
        [r1 EXCEPT
           !.parts = srt.parts,
           !.cparts = [k \in 1..Len(r1.parts) |->
                         [ x |-> srt.parts[k].x, h |-> srt.parts[k].h,
                           dt |-> srt.parts[k].dt ]],
           !.cells = [a \in DOMAIN @ |->
              IF a <= r1.nr_cells
              THEN [@[a] EXCEPT
                      !.count = count(a),
                      !.first = Cardinality(
                         { k \in 1..Len(ind) : ind[k] < a - 1 })]
              ELSE @[a]]]
      on(srt) == IF srt.err # "ok" THEN [r2(srt) EXCEPT !.err = srt.err]
                 ELSE RecurseTop(r2(srt), 1, r1.nr_cells)
  IN UNION { { on(srt) } \cup (IF \E k \in 1..3 : r1.cdim[k] = 0
                               THEN { [r1 EXCEPT !.err = "segv"] } ELSE {}) :
             srt \in { parts_sort([ind |-> ind, parts |-> r1.parts,
                                   err |-> "ok"],
                                  0, Len(ind), 0, r1.nr_cells) } }

(***************************************************************************)
(* The particles drawn for the rebuilds.  The domain has the sides DomDim  *)
(* and a rebuild is asked for cells of at least 8 or 16, which gives a     *)
(* grid of 2 x 2 x 2 cells or of one cell.                                 *)
(***************************************************************************)
\* number of particles at most
MaxParts == 3
\* number of calls of space_rebuild at most, the one of space_init included
MaxRebuilds == 2

DomDim == <<16, 16, 16>>
CellMaxes == {8, 16}
\* smoothing lengths: 3 is below half the side of a cell of side 8, 5 is not
HSet == {3, 5}
\* the places a particle moves through
PosRing == << <<1, 1, 1>>, <<5, 1, 1>>, <<9, 1, 1>>, <<1, 1, 9>>, <<1, 9, 1>> >>
NextPos(x) ==
  IF \E n \in 1..Len(PosRing) : PosRing[n] = x
  THEN PosRing[((CHOOSE n \in 1..Len(PosRing) : PosRing[n] = x) % Len(PosRing)) + 1]
  ELSE PosRing[1]

\* the particles with the positions X and the smoothing lengths H
Scene(X, H) == [k \in 1..Len(X) |-> [id |-> k, x |-> X[k], h |-> H[k], dt |-> k]]

\* the particle arrays space_init is called with
Scenes ==
  { sc \in { Scene(<< <<9, 1, 1>> >>, <<3>>),
             Scene(<< <<1, 1, 1>>, <<5, 1, 1>> >>, <<3, 3>>),
             Scene(<< <<1, 1, 9>>, <<1, 1, 1>>, <<1, 9, 1>> >>, <<3, 3, 3>>),
             Scene(<< <<1, 1, 1>>, <<2, 1, 1>>, <<5, 1, 1>> >>, <<3, 5, 3>>),
             Scene(<< <<1, 1, 1>>, <<1, 1, 9>>, <<9, 1, 1>> >>, <<5, 3, 3>>),
             Scene(<< <<1, 1, 1>>, <<5, 1, 1>>, <<9, 1, 1>>, <<1, 1, 9>> >>,
                   <<3, 3, 3, 3>>) } :
      Len(sc) <= MaxParts }

\* the values of the globals space_splitsize and space_subsize set for them
SmallSplitSize == 1
SmallSubSizes == {1, 400}

(***************************************************************************)
(* The state.                                                              *)
(***************************************************************************)
VARIABLES
  pc,               \* position of the program
  periodic,         \* s->periodic
  cdim,             \* s->cdim
  dim,              \* s->dim
  nr_cells,         \* s->nr_cells
  space_subsize,    \* the global space_subsize
  cells,            \* the cells, by address
  tasks,            \* s->tasks[ 0 .. s->nr_tasks-1 ]
  tasks_size,       \* s->tasks_size, 0 while s->tasks is NULL
  tid,              \* loop index of space_splittasks
  err,              \* "ok", or how the program stopped
  parts,            \* s->parts
  cparts,           \* s->cparts
  cells_new,        \* s->cells_new, the buffer of free cells
  tot_cells,        \* s->tot_cells
  maxdepth,         \* s->maxdepth
  space_splitsize,  \* the global space_splitsize
  changes,          \* what the last space_rebuild returned
  force,            \* the arguments of the last space_rebuild
  cell_max,
  rebuilds,         \* number of calls of space_rebuild so far
  moved,            \* has a particle changed since the last space_rebuild?
  wait,             \* t->wait of every task during a run
  queue,            \* the ready queue: how often it holds each task
  runners,          \* what every worker thread is doing
  locked,           \* the cells whose spinlock is held
  executed,         \* how often every task has been executed
  ind,              \* the array ind of bin indices parts_sort works on
  loop,             \* the call of space_rebuild that is in its parallel loop
  slock             \* the iteration whose thread holds s->lock, 0 if free

\* the state of a run of the task graph
svars == << wait, queue, runners, locked, executed >>
\* the state of the parallel loop of space_rebuild
ovars == << loop, slock >>
gvars == << periodic, dim, space_subsize, space_splitsize, svars, ind, ovars >>
\* what a call of space_rebuild leaves alone
tvars == << tasks, tasks_size, tid, periodic, dim, space_subsize,
           space_splitsize, svars, ind >>
lvars == << tvars, slock >>
rvars == << parts, cparts, cells_new, tot_cells, maxdepth,
            changes, force, cell_max, rebuilds, moved >>
vars == << pc, cdim, nr_cells, cells, tasks, tasks_size, tid, err, gvars,
          rvars >>

\* the fields of the space the graph build reads
G == [cdim |-> cdim, dim |-> dim, periodic |-> periodic,
      nr_cells |-> nr_cells, tot_cells |-> tot_cells,
      subsize |-> space_subsize]

\* the build state
St == [cells |-> cells, tasks |-> tasks, tasks_size |-> tasks_size,
       err |-> err, wild |-> FALSE]

\* the rebuild state
Rs == [ cells |-> cells, parts |-> parts, cparts |-> cparts,
        cells_new |-> cells_new, tot_cells |-> tot_cells,
        maxdepth |-> maxdepth, dim |-> dim, cdim |-> cdim,
        nr_cells |-> nr_cells, splitsize |-> space_splitsize,
        changes |-> 0, err |-> err, log |-> <<>>, thread |-> 0 ]

\* no run of the graph has been started, no array of bin indices is allocated
NoRun ==
  /\ ind = <<>>
  /\ wait = <<>>
  /\ queue = <<>>
  /\ runners = <<>>
  /\ locked = {}
  /\ executed = <<>>
  /\ loop = <<>>
  /\ slock = 0

\* space_maketasks is entered on a tree space_rebuild has left: the cells A
\* and B of the grid carry drawn trees, the other cells hold no particles
Init ==
  /\ pc = "sorts"
  /\ NoRun
  /\ periodic \in BOOLEAN
  /\ cdim \in Grids
  /\ dim = [a \in 1..3 |-> cdim[a] * TopH[a]]
  /\ nr_cells = cdim[1] * cdim[2] * cdim[3]
  /\ space_subsize \in SubSizes
  /\ space_splitsize = SplitSizeDefault
  /\ \E A, B \in 1..nr_cells : \E a, b \in 1..Len(Shapes) :
       /\ A <= B
       /\ A = B => a = b
       /\ ValidTree(Shape(a), TopH, SplitSizeDefault)
       /\ ValidTree(Shape(b), TopH, SplitSizeDefault)
       /\ cells = TreeCells([c \in 1..nr_cells |->
                              IF c = A THEN Shape(a)
                              ELSE IF c = B THEN Shape(b) ELSE Nil],
                            cdim, TopH)
  /\ tasks = <<>>
  /\ tasks_size = 0
  /\ tid = 0
  /\ err = "ok"
  /\ parts = <<>>
  /\ cparts = <<>>
  /\ cells_new = [stack |-> <<>>, fresh |-> PoolBase + 1, left |-> 0]
  /\ tot_cells = Cardinality(DOMAIN cells)
  /\ maxdepth = 0
  /\ changes = 1
  /\ force = 1
  /\ cell_max = TopH[1]
  /\ rebuilds = 1
  /\ moved = FALSE

\* move to the build state st at position p; an access through a pointer
\* into a freed array has stopped the program or has gone unnoticed
Goto(st, p) ==
  \E s \in {st} :
    /\ cells' = s.cells
    /\ tasks' = s.tasks
    /\ tasks_size' = s.tasks_size
    /\ err' \in IF s.wild /\ s.err = "ok" THEN {"ok", "segv"} ELSE {s.err}
    /\ pc' = IF err' = "ok" THEN p ELSE "crashed"
    /\ UNCHANGED << cdim, nr_cells, gvars, rvars >>

\* Allocate the task-list, if needed; loop over the cells and generate
\* their sorting tasks.
MakeSorts ==
  /\ pc = "sorts"
  /\ \E s0 \in { AllocTasks(St, G) } : Goto(SortAllCells(s0, G, 1), "base")
  /\ tid' = 0

\* Run through the highest level of cells and add pairs.
MakeBase ==
  /\ pc = "base"
  /\ Goto(BaseTasks(St, G, 0), "split")
  /\ tid' = 0

\* one pass of the loop of space_splittasks
SplitTask ==
  /\ pc = "split"
  /\ tid < Len(tasks)
  /\ LET r == SplitStep(St, G, tid)
     IN Goto(r.st, "split") /\ tid' = r.tid

\* Remove sort tasks with no dependencies.
RemoveSorts ==
  /\ pc = "split"
  /\ tid >= Len(tasks)
  /\ Goto(SortSweep(St, 1, Len(tasks)), "count")
  /\ UNCHANGED tid

\* Count the number of tasks associated with each cell.
CountCells ==
  /\ pc = "count"
  /\ Goto(CountTasks(St, G), "ghosts")
  /\ UNCHANGED tid

\* Append a ghost task to each cell.
Ghosts ==
  /\ pc = "ghosts"
  /\ Goto(MkGhosts(St, MapOrderTop(cells, nr_cells, 1), 1,
                   Len(MapOrderTop(cells, nr_cells, 1))), "force")
  /\ UNCHANGED tid

\* Run through the tasks and make iacts for each density task.
Force ==
  /\ pc = "force"
  /\ Goto(MakeForce(St, 1, Len(tasks)), "done")
  /\ UNCHANGED tid

\* the steps of space_maketasks
Next ==
  \/ MakeSorts
  \/ MakeBase
  \/ SplitTask
  \/ RemoveSorts
  \/ CountCells
  \/ Ghosts
  \/ Force

\* the build of the task graph on the trees drawn
Spec == Init /\ [][Next]_vars

(***************************************************************************)
(* The rebuilds: space_init on the particles drawn, then particles change  *)
(* and space_rebuild is called again.  space_rebuild ends with the call of *)
(* space_maketasks if it counted changes; the steps above are that call.   *)
(***************************************************************************)

\* before space_init
InitRebuild ==
  /\ pc = "start"
  /\ NoRun
  /\ periodic \in BOOLEAN
  /\ dim = DomDim
  /\ cdim = <<0, 0, 0>>
  /\ nr_cells = 0
  /\ space_subsize \in SmallSubSizes
  /\ space_splitsize = SmallSplitSize
  /\ cells = <<>>
  /\ tasks = <<>>
  /\ tasks_size = 0
  /\ tid = 0
  /\ err = "ok"
  /\ parts \in Scenes
  /\ cparts = <<>>
  /\ cells_new = [stack |-> <<>>, fresh |-> PoolBase + 1, left |-> 0]
  /\ tot_cells = 0
  /\ maxdepth = 0
  /\ changes = 0
  /\ force = 0
  /\ cell_max = 0
  /\ rebuilds = 0
  /\ moved = FALSE

\* space_rebuild( s , f , cm ) is called and comes to its parallel loop:
\* loop holds the space the call works on (rs, the cells the iterations are
\* handed named as in the log), the accesses tr of the iterations, what the
\* accesses made so far have left of the space (q), the arguments of the
\* call and where every iteration is in its access (th)
ToLoop(f, cm) ==
  /\ \E r \in space_rebuild(Rs, f, cm) : \E tr \in { Traces(r.log) } :
       loop' = [ rs |-> [r EXCEPT !.log = <<>>], tr |-> tr,
                 q |-> LoopStart(r, tr), force |-> f, cell_max |-> cm,
                 th |-> [k \in DOMAIN tr |-> [st |-> "start", c |-> NULL]] ]
  /\ pc' = "loop"
  /\ UNCHANGED << cdim, nr_cells, cells, err, rvars, lvars >>

\* iteration k of the loop has accesses left
Running(k) ==
  loop.rs.err = "ok" /\ loop.q.ip[k] <= Len(loop.tr[k])

\* iteration k of the parallel loop does its next access to the space
Iterate(k) ==
  /\ pc = "loop"
  /\ Running(k)
  /\ loop' = [loop EXCEPT !.q = Access(@, loop.tr, k)]
  /\ UNCHANGED << pc, cdim, nr_cells, cells, err, rvars, lvars >>

\* space_rebuild( s , f , cm ) has come to the rebuild state rs and returns
Rebuilt(rs, f, cm) ==
  /\ cells' = rs.cells
  /\ parts' = rs.parts
  /\ cparts' = rs.cparts
  /\ cells_new' = rs.cells_new
  /\ tot_cells' = rs.tot_cells
  /\ maxdepth' = rs.maxdepth
  /\ cdim' = rs.cdim
  /\ nr_cells' = rs.nr_cells
  /\ err' = rs.err
  /\ changes' = rs.changes
  /\ pc' = IF rs.err # "ok" THEN "crashed"
           ELSE IF rs.changes # 0 THEN "sorts" ELSE "done"
  /\ force' = f
  /\ cell_max' = cm
  /\ rebuilds' = rebuilds + 1
  /\ moved' = FALSE
  /\ loop' = <<>>
  /\ UNCHANGED lvars

\* the end of the parallel loop, or of a call that has stopped before it:
\* the changes of the iterations are added up and space_rebuild goes on to
\* space_maketasks if there are any
EndLoop ==
  /\ pc = "loop"
  /\ \A k \in DOMAIN loop.tr : ~Running(k)
  /\ Rebuilt(IF loop.rs.err = "ok" THEN LoopEnd(loop.rs, loop.q) ELSE loop.rs,
             loop.force, loop.cell_max)

\* space_init: Build the cells and the tasks.
SpaceInit ==
  /\ pc = "start"
  /\ \E cm \in CellMaxes : ToLoop(1, cm)

\* a later call of space_rebuild
Rebuild ==
  /\ pc = "done"
  /\ rebuilds < MaxRebuilds
  /\ \E f \in {0, 1}, cm \in CellMaxes : ToLoop(f, cm)

\* the parallel loop of a call of space_rebuild
Loop ==
  \/ \E k \in (IF pc = "loop" THEN DOMAIN loop.tr ELSE {}) : Iterate(k)
  \/ EndLoop

\* between two rebuilds the smoothing lengths of the particles change, or
\* a particle moves
Drift ==
  /\ pc = "done"
  /\ rebuilds < MaxRebuilds
  /\ ~moved
  /\ \/ \E v \in HSet :
          /\ \E k \in 1..Len(parts) : parts[k].h # v
          /\ parts' = [k \in 1..Len(parts) |-> [parts[k] EXCEPT !.h = v]]
     \/ \E k \in 1..Len(parts) :
          parts' = [parts EXCEPT ![k].x = NextPos(@)]
  /\ moved' = TRUE
  /\ UNCHANGED << pc, cdim, nr_cells, cells, tasks, tasks_size, tid, err, gvars,
                  cparts, cells_new, tot_cells, maxdepth, changes, force,
                  cell_max, rebuilds >>

NextRebuild ==
  \/ SpaceInit
  \/ Rebuild
  \/ Loop
  \/ Drift
  \/ Next

SpecRebuild == InitRebuild /\ [][NextRebuild]_vars

(***************************************************************************)
(* Rebuilds between which several particles move at once, so that a cell   *)
(* of the tree loses all its particles in one go.                          *)
(***************************************************************************)
\* the particle arrays space_init is called with
WanderScenes ==
  { sc \in { Scene(<< <<5, 1, 1>>, <<5, 1, 1>> >>, <<3, 3>>),
             Scene(<< <<1, 1, 1>>, <<5, 1, 1>> >>, <<3, 3>>),
             Scene(<< <<1, 1, 1>>, <<5, 1, 1>>, <<1, 1, 9>> >>, <<3, 3, 3>>) } :
      Len(sc) <= MaxParts }

InitWander ==
  /\ pc = "start"
  /\ NoRun
  /\ periodic \in BOOLEAN
  /\ dim = DomDim
  /\ cdim = <<0, 0, 0>>
  /\ nr_cells = 0
  /\ space_subsize \in SmallSubSizes
  /\ space_splitsize = SmallSplitSize
  /\ cells = <<>>
  /\ tasks = <<>>
  /\ tasks_size = 0
  /\ tid = 0
  /\ err = "ok"
  /\ parts \in WanderScenes
  /\ cparts = <<>>
  /\ cells_new = [stack |-> <<>>, fresh |-> PoolBase + 1, left |-> 0]
  /\ tot_cells = 0
  /\ maxdepth = 0
  /\ changes = 0
  /\ force = 0
  /\ cell_max = 0
  /\ rebuilds = 0
  /\ moved = FALSE

\* between two rebuilds some of the particles move
Wander ==
  /\ pc = "done"
  /\ rebuilds < MaxRebuilds
  /\ ~moved
  /\ \E S \in (SUBSET (1..Len(parts))) \ {{}} :
       parts' = [k \in 1..Len(parts) |->
                   IF k \in S THEN [parts[k] EXCEPT !.x = NextPos(@)]
                   ELSE parts[k]]
  /\ moved' = TRUE
  /\ UNCHANGED << pc, cdim, nr_cells, cells, tasks, tasks_size, tid, err, gvars,
                  cparts, cells_new, tot_cells, maxdepth, changes, force,
                  cell_max, rebuilds >>

NextWander ==
  \/ SpaceInit
  \/ Rebuild
  \/ Loop
  \/ Wander
  \/ Next

SpecWander == InitWander /\ [][NextWander]_vars

(***************************************************************************)
(* Rebuilds of a domain of side 20 around two particles, asked for cells   *)
(* of at least 8 or 16: the grid has 2 cells or 1 cell along every axis,   *)
(* as cell_max or the smoothing length sets the size of the cells.         *)
(***************************************************************************)
GridDim == <<20, 20, 20>>
GridCellMaxes == {8, 16}
\* smoothing lengths: 12 is above the smaller cell_max, 3 is not
GridHSet == {3, 12}

InitGrid ==
  /\ pc = "start"
  /\ NoRun
  /\ periodic = FALSE
  /\ dim = GridDim
  /\ cdim = <<0, 0, 0>>
  /\ nr_cells = 0
  /\ space_subsize \in SmallSubSizes
  /\ space_splitsize = SmallSplitSize
  /\ cells = <<>>
  /\ tasks = <<>>
  /\ tasks_size = 0
  /\ tid = 0
  /\ err = "ok"
  /\ \E v \in GridHSet : parts = Scene(<< <<1, 1, 1>>, <<2, 1, 1>> >>, << v, v >>)
  /\ cparts = <<>>
  /\ cells_new = [stack |-> <<>>, fresh |-> PoolBase + 1, left |-> 0]
  /\ tot_cells = 0
  /\ maxdepth = 0
  /\ changes = 0
  /\ force = 0
  /\ cell_max = 0
  /\ rebuilds = 0
  /\ moved = FALSE

\* space_init: Build the cells and the tasks.
GridInit ==
  /\ pc = "start"
  /\ \E cm \in GridCellMaxes : ToLoop(1, cm)

\* a later call of space_rebuild
GridRebuild ==
  /\ pc = "done"
  /\ rebuilds < MaxRebuilds
  /\ \E f \in {0, 1}, cm \in GridCellMaxes : ToLoop(f, cm)

\* between two rebuilds the smoothing length of the particles changes
GridDrift ==
  /\ pc = "done"
  /\ rebuilds < MaxRebuilds
  /\ ~moved
  /\ \E v \in GridHSet :
       /\ parts[1].h # v
       /\ parts' = [k \in 1..Len(parts) |-> [parts[k] EXCEPT !.h = v]]
  /\ moved' = TRUE
  /\ UNCHANGED << pc, cdim, nr_cells, cells, tasks, tasks_size, tid, err, gvars,
                  cparts, cells_new, tot_cells, maxdepth, changes, force,
                  cell_max, rebuilds >>

NextGrid ==
  \/ GridInit
  \/ GridRebuild
  \/ Loop
  \/ GridDrift
  \/ Next

SpecGrid == InitGrid /\ [][NextGrid]_vars

(***************************************************************************)
(* A run of the task graph by a pool of worker threads.  A task is ready   *)
(* when its wait counter is 0; a worker pops a ready task, takes the locks *)
(* of the cells of a pair or sub task by try-lock (the task goes back to   *)
(* the queue when a lock is held), executes it, decrements the wait        *)
(* counters of the tasks it unlocks and pushes those that reach 0.         *)
(***************************************************************************)
\* number of worker threads at most
MaxRunners == 2

\* the graphs that are run: rows of two or three top-level cells with the
\* trees of these numbers in RunShapes (0: no particles)
RunShapes == << Lf(300, 3), Sp(Only({0, 7}, Lf(1200, 3))) >>
RunForests == { << 1, 1 >>, << 2, 1 >>, << 1, 1, 1 >>, << 1, 0, 1 >> }

\* the wait space_addtask is called with
InitialWait_asadded(tk, t) == 0

\* wait of task t of the list tk when the graph is submitted
InitialWait(tk, t) ==
  Cardinality({ i \in 1..Len(tk) : t \in tk[i].unlock })

\* the cells whose locks task tk takes before it is executed
LockCells(tk) ==
  IF tk.type \in {"pair", "sub"} THEN {tk.ci, tk.cj} \ {NULL} ELSE {}

\* the tasks task tk unlocks when it completes
UnlockTasks(tk) == tk.unlock

Idle == [st |-> "idle", t |-> NULL]

\* a task is in flight: popped and not yet completed or put back
InFlight == \E w \in DOMAIN runners : runners[w].st \in {"popped", "exec"}

InitRun ==
  /\ pc = "sorts"
  /\ NoRun
  /\ periodic = FALSE
  /\ cdim \in { << Len(f), 1, 1 >> : f \in RunForests }
  /\ dim = [a \in 1..3 |-> cdim[a] * TopH[a]]
  /\ nr_cells = cdim[1] * cdim[2] * cdim[3]
  /\ space_subsize \in SubSizes
  /\ space_splitsize = SplitSizeDefault
  /\ \E f \in { x \in RunForests : Len(x) = nr_cells } :
       cells = TreeCells([c \in 1..nr_cells |->
                            IF f[c] = 0 THEN Nil ELSE RunShapes[f[c]]],
                         cdim, TopH)
  /\ tasks = <<>>
  /\ tasks_size = 0
  /\ tid = 0
  /\ err = "ok"
  /\ parts = <<>>
  /\ cparts = <<>>
  /\ cells_new = [stack |-> <<>>, fresh |-> PoolBase + 1, left |-> 0]
  /\ tot_cells = Cardinality(DOMAIN cells)
  /\ maxdepth = 0
  /\ changes = 1
  /\ force = 1
  /\ cell_max = TopH[1]
  /\ rebuilds = 1
  /\ moved = FALSE

\* the graph space_maketasks has built is submitted to a pool of W workers:
\* every task waits for its predecessors, the tasks without one are ready
Submit ==
  /\ pc = "done"
  /\ pc' = "run"
  /\ wait' = [t \in 1..Len(tasks) |-> InitialWait(tasks, t)]
  /\ queue' = [t \in 1..Len(tasks) |->
                 IF tasks[t].type # "none" /\ InitialWait(tasks, t) = 0
                 THEN 1 ELSE 0]
  /\ \E W \in 1..MaxRunners : runners' = [w \in 1..W |-> Idle]
  /\ locked' = {}
  /\ executed' = [t \in 1..Len(tasks) |-> 0]
  /\ UNCHANGED << cdim, nr_cells, cells, tasks, tasks_size, tid, err, periodic, dim,
                  space_subsize, space_splitsize, ind, ovars, rvars >>

\* the space and the graph do not change during a run
RunFrame ==
  UNCHANGED << pc, cdim, nr_cells, cells, tasks, tasks_size, tid, err, periodic, dim,
               space_subsize, space_splitsize, ind, ovars, rvars >>

\* worker w pops a ready task from the queue
Pop(w) ==
  /\ pc = "run"
  /\ runners[w].st = "idle"
  /\ \E t \in DOMAIN queue :
       /\ queue[t] > 0
       /\ queue' = [queue EXCEPT ![t] = @ - 1]
       /\ runners' = [runners EXCEPT ![w] = [st |-> "popped", t |-> t]]
  /\ UNCHANGED << wait, locked, executed >>
  /\ RunFrame

\* worker w has got the locks of the cells of its task and executes it
Start(w) ==
  /\ pc = "run"
  /\ runners[w].st = "popped"
  /\ LockCells(tasks[runners[w].t]) \cap locked = {}
  /\ locked' = locked \cup LockCells(tasks[runners[w].t])
  /\ runners' = [runners EXCEPT ![w].st = "exec"]
  /\ UNCHANGED << wait, queue, executed >>
  /\ RunFrame

\* a lock of the task of worker w is held: the task goes back to the queue
Requeue(w) ==
  /\ pc = "run"
  /\ runners[w].st = "popped"
  /\ LockCells(tasks[runners[w].t]) \cap locked # {}
  /\ queue' = [queue EXCEPT ![runners[w].t] = @ + 1]
  /\ runners' = [runners EXCEPT ![w] = Idle]
  /\ UNCHANGED << wait, locked, executed >>
  /\ RunFrame

\* worker w completes its task: it decrements the wait of every task the
\* task unlocks, pushes those that have reached 0 and releases the locks
Finish(w) ==
  /\ pc = "run"
  /\ runners[w].st = "exec"
  /\ LET t == runners[w].t
         U == UnlockTasks(tasks[t])
     IN /\ executed' = [executed EXCEPT ![t] = @ + 1]
        /\ wait' = [s \in DOMAIN wait |->
                      IF s \in U THEN wait[s] - 1 ELSE wait[s]]
        /\ queue' = [s \in DOMAIN queue |->
                       IF s \in U /\ wait[s] - 1 = 0
                       THEN queue[s] + 1 ELSE queue[s]]
        /\ locked' = locked \ LockCells(tasks[t])
  /\ runners' = [runners EXCEPT ![w] = Idle]
  /\ RunFrame

\* worker w exits as soon as it finds the queue empty
Exit_early(w) ==
  /\ pc = "run"
  /\ runners[w].st = "idle"
  /\ \A t \in DOMAIN queue : queue[t] = 0
  /\ runners' = [runners EXCEPT ![w].st = "exited"]
  /\ UNCHANGED << wait, queue, locked, executed >>
  /\ RunFrame

\* worker w exits: the queue is empty and no task is in flight
Exit(w) ==
  /\ pc = "run"
  /\ runners[w].st = "idle"
  /\ \A t \in DOMAIN queue : queue[t] = 0
  /\ ~InFlight
  /\ runners' = [runners EXCEPT ![w].st = "exited"]
  /\ UNCHANGED << wait, queue, locked, executed >>
  /\ RunFrame

\* a step of worker w
Runner(w) == Pop(w) \/ Start(w) \/ Requeue(w) \/ Finish(w) \/ Exit(w)

NextRun ==
  \/ Next
  \/ Submit
  \/ \E w \in DOMAIN runners : Pop(w)
  \/ \E w \in DOMAIN runners : Start(w)
  \/ \E w \in DOMAIN runners : Requeue(w)
  \/ \E w \in DOMAIN runners : Finish(w)
  \/ \E w \in DOMAIN runners : Exit(w)

\* the build of a graph and its run under any scheduling of the workers
SpecRun == InitRun /\ [][NextRun]_vars

\* a run in which every worker that can take a step eventually takes one
SpecRunFair ==
  /\ SpecRun
  /\ \A w \in 1..MaxRunners : WF_vars(w \in DOMAIN runners /\ Runner(w))

(***************************************************************************)
(* The build of the task graph on a pair of cells in every relative        *)
(* position: a grid of 3 x 3 x 3 top-level cells of which the first one    *)
(* and one other carry a tree.  With periodic wrap the second cell lies in *)
(* each of the 26 directions of the stencil.                               *)
(***************************************************************************)
\* the trees drawn for the two cells
StencilShapes ==
  << Sp(All8(Lf(650, 3))),
     Sp(All8(Lf(60, 3))),
     Sp(Only({0, 7}, Lf(1200, 3))),
     Sp(Only({0, 7}, Lf(2500, 3))),
     Sp(All8(Lf(60, 4))),
     Lf(300, 3) >>

\* the trees of the first and of the second cell, by their number
StencilPairs ==
  { << n, n >> : n \in 1..5 } \cup { << 1, 6 >>, << 2, 1 >>, << 4, 6 >> }

\* the sides of the top-level cells drawn; the grid has the same number of
\* cells along every axis, so the longest side is less than 4/3 of the
\* shortest one
StencilSides == { << 8, 8, 8 >>, << 8, 8, 10 >> }

StencilCdim == << 3, 3, 3 >>

InitStencil ==
  /\ pc = "sorts"
  /\ NoRun
  /\ periodic \in BOOLEAN
  /\ cdim = StencilCdim
  /\ nr_cells = cdim[1] * cdim[2] * cdim[3]
  /\ space_subsize \in SubSizes
  /\ space_splitsize = SplitSizeDefault
  /\ \E H \in StencilSides, B \in 2..nr_cells, ab \in StencilPairs :
       /\ dim = [a \in 1..3 |-> cdim[a] * H[a]]
       /\ cell_max = Min3(H)
       /\ cdim = PutativeCdim(dim, Max(DHmax(StencilShapes[ab[1]]),
                                      DHmax(StencilShapes[ab[2]])), cell_max)
       /\ ValidTree(StencilShapes[ab[1]], H, SplitSizeDefault)
       /\ ValidTree(StencilShapes[ab[2]], H, SplitSizeDefault)
       /\ cells = TreeCells([c \in 1..nr_cells |->
                              IF c = 1 THEN StencilShapes[ab[1]]
                              ELSE IF c = B THEN StencilShapes[ab[2]] ELSE Nil],
                            cdim, H)
  /\ tasks = <<>>
  /\ tasks_size = 0
  /\ tid = 0
  /\ err = "ok"
  /\ parts = <<>>
  /\ cparts = <<>>
  /\ cells_new = [stack |-> <<>>, fresh |-> PoolBase + 1, left |-> 0]
  /\ tot_cells = Cardinality(DOMAIN cells)
  /\ maxdepth = 0
  /\ changes = 1
  /\ force = 1
  /\ rebuilds = 1
  /\ moved = FALSE

SpecStencil == InitStencil /\ [][Next]_vars

(***************************************************************************)
(* Rebuilds of a row of two top-level cells with the values of the code    *)
(* for space_splitsize and space_subsize, on as many particles as it takes *)
(* for a cell to get a second sort task (1000) and for a cell to get all   *)
(* seven of them (5000).  Between two rebuilds                             *)
(* particles move; the later rebuild is not forced, keeps the grid, goes   *)
(* down every tree with space_rebuild_recurse and calls space_maketasks    *)
(* again if it counted changes.  A cell that stays in the tree keeps the   *)
(* fields the rebuild does not write: sorts, ghost, super and the task     *)
(* counts of the build before.                                             *)
(***************************************************************************)
\* number of later rebuilds at most
MaxRegrows == 1

RegrowDim == << 8, 8, 16 >>
RegrowCellMax == 8

\* the particle array space_init is called with: 1000 particles in progeny
\* 0 of the first cell, one in its progeny 7 and one in the second cell
RegrowScene ==
  Scene([k \in 1..1002 |-> IF k <= 1000 THEN << 1, 1, 1 >>
                           ELSE IF k = 1001 THEN << 5, 5, 5 >>
                           ELSE << 1, 1, 9 >>],
        [k \in 1..1002 |-> 3])

\* the moves drawn: the particles who of s->parts go to the place to
RegrowMoves ==
  { [who |-> {1000, 1001}, to |-> << 1, 1, 9 >>],
    [who |-> {1001}, to |-> << 1, 1, 9 >>],
    [who |-> {1000}, to |-> << 5, 5, 5 >>],
    [who |-> {1002}, to |-> << 1, 1, 1 >>] }

\* a second particle array: 5000 particles in the first cell, 600 of them
\* in its progeny 0, 1 and 2 and 4400 in its progeny 7; 2600 of them have a
\* smoothing length below half the side of the cell
CrowdScene ==
  Scene([k \in 1..5000 |-> IF k <= 598 THEN << 1, 1, 1 >>
                           ELSE IF k = 599 THEN << 1, 1, 5 >>
                           ELSE IF k = 600 THEN << 1, 5, 1 >>
                           ELSE << 5, 5, 5 >>],
        [k \in 1..5000 |-> IF k <= 2600 THEN 3 ELSE 5])

\* its moves: the particles of progeny 7 go to the second cell
CrowdMoves ==
  { [who |-> 601..5000, to |-> << 1, 1, 9 >>] }

\* the moves drawn for the particle array P
MovesOf(P) == IF Len(P) = Len(CrowdScene) THEN CrowdMoves ELSE RegrowMoves

\* before space_init
InitRegrow ==
  /\ pc = "start"
  /\ NoRun
  /\ periodic \in BOOLEAN
  /\ dim = RegrowDim
  /\ cdim = <<0, 0, 0>>
  /\ nr_cells = 0
  /\ space_subsize \in SubSizes
  /\ space_splitsize = SplitSizeDefault
  /\ cells = <<>>
  /\ tasks = <<>>
  /\ tasks_size = 0
  /\ tid = 0
  /\ err = "ok"
  /\ parts \in {RegrowScene, CrowdScene}
  /\ cparts = <<>>
  /\ cells_new = [stack |-> <<>>, fresh |-> PoolBase + 1, left |-> 0]
  /\ tot_cells = 0
  /\ maxdepth = 0
  /\ changes = 0
  /\ force = 0
  /\ cell_max = 0
  /\ rebuilds = 0
  /\ moved = FALSE

\* space_init: Build the cells and the tasks.
RegrowInit ==
  /\ pc = "start"
  /\ ToLoop(1, RegrowCellMax)

\* between two rebuilds particles move
RegrowMove ==
  /\ pc = "done"
  /\ rebuilds <= MaxRegrows
  /\ ~moved
  /\ \E m \in MovesOf(parts) :
       parts' = [k \in 1..Len(parts) |->
                   IF k \in m.who THEN [parts[k] EXCEPT !.x = m.to]
                   ELSE parts[k]]
  /\ moved' = TRUE
  /\ UNCHANGED << pc, cdim, nr_cells, cells, tasks, tasks_size, tid, err, gvars,
                  cparts, cells_new, tot_cells, maxdepth, changes, force,
                  cell_max, rebuilds >>

\* space_rebuild( s , 0 , cell_max ) after particles have moved
Regrow ==
  /\ pc = "done"
  /\ rebuilds <= MaxRegrows
  /\ moved
  /\ ToLoop(0, cell_max)

NextRegrow ==
  \/ RegrowInit
  \/ RegrowMove
  \/ Regrow
  \/ Loop
  \/ Next

SpecRegrow == InitRegrow /\ [][NextRegrow]_vars

(***************************************************************************)
(* The parallel loop of space_rebuild, statement by statement.  The calls  *)
(* of space_getcell and space_recycle of the iterations are taken apart    *)
(* into their reads and writes of the space between lock_lock and          *)
(* lock_unlock_blind; s->lock is a spinlock: lock_lock waits until the     *)
(* lock is free.  loop.th[k] holds where iteration k is in its call (st)   *)
(* and its local pointer c.  Every iteration is run by a thread of its     *)
(* own, and after every statement any thread may take the next step.  The  *)
(* particle arrays are such that in every loop one of the two iterations   *)
(* makes few calls: the interleavings of the calls of two iterations that  *)
(* both split a cell of two particles run into the millions.               *)
(***************************************************************************)
\* the particle arrays space_init is called with.  Two particles that share
\* progeny 0 of the first cell and are small against it, the second cell
\* empty; or seven particles in seven progeny of the first cell and one in
\* the second cell.
OmpScenes ==
  { Scene(<< << 1, 1, 1 >>, << 3, 1, 1 >> >>, << 1, 1 >>),
    Scene(<< << 1, 1, 1 >>, << 1, 1, 5 >>, << 1, 5, 1 >>, << 1, 5, 5 >>,
             << 5, 1, 1 >>, << 5, 1, 5 >>, << 5, 5, 1 >>, << 1, 1, 9 >> >>,
          << 1, 1, 1, 1, 1, 1, 1, 1 >>) }

\* the moves drawn for the particle array P: the particles who of s->parts
\* go to the place to.  Of the two particles both or one go to the second
\* cell; of the eight the seventh goes to the second cell, into another
\* progeny than the eighth, or the eighth to the first cell.
OmpMoves(P) ==
  IF Len(P) = 2
  THEN { [who |-> {1, 2}, to |-> << 1, 1, 9 >>],
         [who |-> {2}, to |-> << 1, 1, 9 >>] }
  ELSE { [who |-> {7}, to |-> << 5, 1, 9 >>],
         [who |-> {8}, to |-> << 5, 5, 5 >>] }

\* before space_init
InitOmp ==
  /\ pc = "start"
  /\ NoRun
  /\ periodic = FALSE
  /\ dim = RegrowDim
  /\ cdim = <<0, 0, 0>>
  /\ nr_cells = 0
  /\ space_subsize = SplitSizeDefault
  /\ space_splitsize = SmallSplitSize
  /\ cells = <<>>
  /\ tasks = <<>>
  /\ tasks_size = 0
  /\ tid = 0
  /\ err = "ok"
  /\ parts \in OmpScenes
  /\ cparts = <<>>
  /\ cells_new = [stack |-> <<>>, fresh |-> PoolBase + 1, left |-> 0]
  /\ tot_cells = 0
  /\ maxdepth = 0
  /\ changes = 0
  /\ force = 0
  /\ cell_max = 0
  /\ rebuilds = 0
  /\ moved = FALSE

\* space_init: Build the cells and the tasks.
OmpInit ==
  /\ pc = "start"
  /\ ToLoop(1, RegrowCellMax)

\* between two rebuilds particles move
OmpMove ==
  /\ pc = "done"
  /\ rebuilds < MaxRebuilds
  /\ ~moved
  /\ \E m \in OmpMoves(parts) :
       parts' = [k \in 1..Len(parts) |->
                   IF k \in m.who THEN [parts[k] EXCEPT !.x = m.to]
                   ELSE parts[k]]
  /\ moved' = TRUE
  /\ UNCHANGED << pc, cdim, nr_cells, cells, tasks, tasks_size, tid, err, gvars,
                  cparts, cells_new, tot_cells, maxdepth, changes, force,
                  cell_max, rebuilds >>

\* space_rebuild( s , 0 , cell_max ) after particles have moved
OmpRebuild ==
  /\ pc = "done"
  /\ rebuilds < MaxRebuilds
  /\ moved
  /\ ToLoop(0, cell_max)

\* the access iteration k is at
Cur(k) == loop.tr[k][loop.q.ip[k]]

\* iteration k spins in lock_lock
Spinning(k) ==
  /\ Cur(k)[2] \in {"get", "recycle"}
  /\ loop.th[k].st = "start"
  /\ slock # 0

\* iteration k is at the statement st of an access of the kind what
At(k, what, st) ==
  /\ pc = "loop"
  /\ Running(k)
  /\ Cur(k)[2] \in what
  /\ loop.th[k].st = st

\* the step of iteration k leaves its call at t and the space of the loop
\* at q
Step(k, t, q) ==
  /\ loop' = [loop EXCEPT !.th[k] = t, !.q = q]
  /\ UNCHANGED << pc, cdim, nr_cells, cells, err, rvars, tvars >>

\* if ( c->depth > s->maxdepth ): iteration k reads s->maxdepth
DepthCheck(k) ==
  /\ At(k, {"read"}, "start")
  /\ Step(k, loop.th[k], Access(loop.q, loop.tr, k))
  /\ UNCHANGED slock

\* s->maxdepth = c->depth
DepthWrite(k) ==
  /\ At(k, {"write"}, "start")
  /\ Step(k, loop.th[k], Access(loop.q, loop.tr, k))
  /\ UNCHANGED slock

\* lock_lock( &s->lock ) of space_getcell and space_recycle
LockSpace(k) ==
  /\ At(k, {"get", "recycle"}, "start")
  /\ slock = 0
  /\ slock' = k
  /\ Step(k, [loop.th[k] EXCEPT !.st = "locked"], loop.q)

\* space_getcell: a new chunk if the buffer is empty, and c = s->cells_new
Pick(k) ==
  /\ At(k, {"get"}, "locked")
  /\ LET fl == IF loop.q.fl.stack = <<>> /\ loop.q.fl.left = 0
               THEN [loop.q.fl EXCEPT !.left = space_cellallocchunk]
               ELSE loop.q.fl
     IN Step(k, [st |-> "picked",
                 c |-> IF fl.stack # <<>> THEN Head(fl.stack) ELSE fl.fresh],
             [loop.q EXCEPT !.fl = fl])
  /\ UNCHANGED slock

\* the buffer fl from c->next on; the cell after one that is not the first
\* of the buffer is read from a cell in use
NextOf(fl, c) ==
  IF fl.stack # <<>> /\ Head(fl.stack) = c THEN [fl EXCEPT !.stack = Tail(@)]
  ELSE IF fl.stack = <<>> /\ fl.fresh = c
  THEN [fl EXCEPT !.fresh = @ + 1, !.left = @ - 1]
  ELSE [fl EXCEPT !.stack = <<>>, !.left = 0]

\* space_getcell that leaves s->cells_new at the cell it hands out
Take_keephead(k) ==
  /\ At(k, {"get"}, "picked")
  /\ Step(k, [loop.th[k] EXCEPT !.st = "taken"],
          [loop.q EXCEPT !.tot = @ + 1])
  /\ UNCHANGED slock

\* space_getcell: s->cells_new = c->next and s->tot_cells += 1
Take(k) ==
  /\ At(k, {"get"}, "picked")
  /\ Step(k, [loop.th[k] EXCEPT !.st = "taken"],
          [loop.q EXCEPT !.fl = NextOf(@, loop.th[k].c), !.tot = @ + 1])
  /\ UNCHANGED slock

\* space_getcell: bzero( c ) and lock_init( &c->lock )
Zero(k) ==
  /\ At(k, {"get"}, "taken")
  /\ Step(k, [loop.th[k] EXCEPT !.st = "unlock"],
          [loop.q EXCEPT !.owner = (loop.th[k].c :> NULL) @@ @])
  /\ UNCHANGED slock

\* space_recycle( s , c ): lock_destroy, free( c->sort ) and bzero( c )
Clear(k) ==
  /\ At(k, {"recycle"}, "locked")
  /\ LET c == IF Cur(k)[3] < 0 THEN loop.q.at[Cur(k)[3]] ELSE Cur(k)[3]
     IN Step(k, [st |-> "cleared", c |-> c],
             [loop.q EXCEPT !.owner = (c :> NULL) @@ @])
  /\ UNCHANGED slock

\* space_recycle: the cell is hooked into the buffer, s->tot_cells -= 1
Hook(k) ==
  /\ At(k, {"recycle"}, "cleared")
  /\ Step(k, [loop.th[k] EXCEPT !.st = "unlock"],
          [loop.q EXCEPT !.fl = HookCell(@, loop.th[k].c), !.tot = @ - 1])
  /\ UNCHANGED slock

\* lock_unlock_blind( &s->lock ) and the return: space_getcell returns c,
\* which the caller makes the cell the log names
UnlockSpace(k) ==
  /\ At(k, {"get", "recycle"}, "unlock")
  /\ slock' = 0
  /\ Step(k, [st |-> "start", c |-> NULL],
          IF Cur(k)[2] = "get"
          THEN [loop.q EXCEPT !.ip[k] = @ + 1,
                              !.at = (Cur(k)[3] :> loop.th[k].c) @@ @,
                              !.owner = (loop.th[k].c :> Cur(k)[3]) @@ @]
          ELSE [loop.q EXCEPT !.ip[k] = @ + 1])

\* the iterations of the loop
Iters == IF pc = "loop" THEN DOMAIN loop.tr ELSE {}

NextOmp ==
  \/ OmpInit
  \/ OmpMove
  \/ OmpRebuild
  \/ \E k \in Iters : DepthCheck(k)
  \/ \E k \in Iters : DepthWrite(k)
  \/ \E k \in Iters : LockSpace(k)
  \/ \E k \in Iters : Pick(k)
  \/ \E k \in Iters : Take(k)
  \/ \E k \in Iters : Zero(k)
  \/ \E k \in Iters : Clear(k)
  \/ \E k \in Iters : Hook(k)
  \/ \E k \in Iters : UnlockSpace(k)
  \/ EndLoop
  \/ Next

\* space_init and a later rebuild with the parallel loop under every
\* scheduling of its threads
SpecOmp == InitOmp /\ [][NextOmp]_vars

(***************************************************************************)
(* parts_sort on its own: it is called on an array of particles and the    *)
(* array ind of their bin indices, with bounds min and max that enclose    *)
(* the indices.                                                            *)
(***************************************************************************)
\* longest array of which every filling with bin indices is drawn
MaxSortLen == 4
\* the bin indices drawn are 0 .. SortBins-1
SortBins == 3

\* arrays long enough for the quicksort pass (N >= 16)
LongInds ==
  { [k \in 1..n |-> (m * k + (k \div 5)) % SortBins] : n \in {16, 19, 40}, m \in {1, 2} }

\* the arrays ind drawn
SortInds ==
  UNION { [1..n -> 0..(SortBins - 1)] : n \in 0..MaxSortLen } \cup LongInds

\* before the call: particle k of the array carries the id k
InitSort ==
  /\ pc = "sort"
  /\ ind \in SortInds
  /\ parts = [k \in 1..Len(ind) |->
                [id |-> k, x |-> <<1, 1, 1>>, h |-> 3, dt |-> k]]
  /\ wait = <<>>
  /\ queue = <<>>
  /\ runners = <<>>
  /\ locked = {}
  /\ executed = <<>>
  /\ loop = <<>>
  /\ slock = 0
  /\ periodic = FALSE
  /\ dim = DomDim
  /\ cdim = <<0, 0, 0>>
  /\ nr_cells = 0
  /\ space_subsize = SplitSizeDefault
  /\ space_splitsize = SplitSizeDefault
  /\ cells = <<>>
  /\ tasks = <<>>
  /\ tasks_size = 0
  /\ tid = 0
  /\ err = "ok"
  /\ cparts = <<>>
  /\ cells_new = [stack |-> <<>>, fresh |-> PoolBase + 1, left |-> 0]
  /\ tot_cells = 0
  /\ maxdepth = 0
  /\ changes = 0
  /\ force = 0
  /\ cell_max = 0
  /\ rebuilds = 0
  /\ moved = FALSE

\* parts_sort( parts , ind , N , min , max ) with every ind[k] in [min, max)
SortCall ==
  /\ pc = "sort"
  /\ \E mn \in 0..1, mx \in 1..SortBins :
       /\ \A k \in 1..Len(ind) : mn <= ind[k] /\ ind[k] < mx
       /\ LET r == parts_sort([ind |-> ind, parts |-> parts, err |-> "ok"],
                              0, Len(ind), mn, mx)
          IN /\ ind' = r.ind
             /\ parts' = r.parts
             /\ err' = r.err
             /\ pc' = IF r.err = "ok" THEN "sorted" ELSE "crashed"
  /\ UNCHANGED << cdim, nr_cells, cells, tasks, tasks_size, tid, periodic, dim,
                  space_subsize, space_splitsize, svars, ovars, cparts,
                  cells_new, tot_cells, maxdepth, changes, force, cell_max,
                  rebuilds, moved >>

NextSort == SortCall

SpecSort == InitSort /\ [][NextSort]_vars

(***************************************************************************)
(* The task graph.                                                         *)
(***************************************************************************)
Tasks == 1..Len(tasks)
Density == { t \in Tasks : IsDensityTask(tasks[t]) }
ForceTasks == { t \in Tasks : tasks[t].type \in {"self", "pair", "sub"}
                              /\ tasks[t].subtype = "force" }
\* the tasks that unlock t
Preds(t) == { i \in Tasks : t \in tasks[i].unlock }
\* the tasks the tasks of S unlock
Succs(S) == UNION { tasks[i].unlock : i \in S }

\* the tasks reachable from the tasks of F by one or more unlock edges,
\* R the ones found so far
RECURSIVE ReachFrom(_, _)
ReachFrom(R, F) ==
  LET N == Succs(F) \ R
  IN IF N = {} THEN R ELSE ReachFrom(R \cup N, N)
Reach(t) == ReachFrom({}, {t})

\* the tasks at the end of an unlock path of n edges inside S, for ever
\* larger n: the result is empty iff the unlock relation on S has no cycle
RECURSIVE PathEnds(_)
PathEnds(S) ==
  LET N == Succs(S) \cap S
  IN IF N = S THEN S ELSE PathEnds(N)
Acyclic == PathEnds(Tasks) = {}

\* the ghost of the super cell of c
SuperGhost(c) == cells[cells[c].super].ghost

\* the force tasks of the same shape as the density task t
Twins(t) ==
  { f \in ForceTasks : /\ tasks[f].type = tasks[t].type
                       /\ tasks[f].ci = tasks[t].ci
                       /\ tasks[f].cj = tasks[t].cj
                       /\ tasks[f].flags = tasks[t].flags }

\* C1: in the built graph every density task D precedes every force task F
\* on a common cell C, along a path through the ghost of super(C).
C1_DensityBeforeForce ==
  pc = "done" =>
    /\ \A d \in Density :
         { SuperGhost(c) : c \in TaskCells(tasks[d]) } \subseteq Reach(d)
    /\ \A c \in UNION { TaskCells(tasks[d]) : d \in Density } :
         { f \in ForceTasks : c \in TaskCells(tasks[f]) }
           \subseteq Reach(SuperGhost(c))

\* a density and a force task share a cell that lies below its super cell
C1_Witness ==
  /\ pc = "done"
  /\ \E d \in Density, f \in ForceTasks :
       \E c \in TaskCells(tasks[d]) \cap TaskCells(tasks[f]) :
         cells[c].super # c

\* C2: every density task has exactly one force task of the same type, ci,
\* cj and flags, and every force task is the twin of exactly one density
\* task.
C2_OneTwin ==
  pc = "done" =>
    /\ \A t \in Density : Cardinality(Twins(t)) = 1
    /\ \A f \in ForceTasks : Cardinality({ t \in Density : f \in Twins(t) }) = 1

\* C3 as stated: the ghost of super(ci) (and of super(cj)) is unlocked by the
\* density task and unlocks the force twin directly.
C3_SuperGhostEdges ==
  pc = "done" =>
    \A t \in Density : \A f \in Twins(t) : \A c \in TaskCells(tasks[t]) :
      /\ SuperGhost(c) \in tasks[t].unlock
      /\ f \in tasks[SuperGhost(c)].unlock

\* the ghost of c is the ghost of super(c) or hangs below it by the edges
\* from the ghost of a parent to the ghost of its progeny
RECURSIVE GhostChain(_)
GhostChain(c) ==
  \/ cells[c].super = c
  \/ /\ cells[c].parent # NULL
     /\ cells[c].ghost \in tasks[cells[cells[c].parent].ghost].unlock
     /\ cells[cells[c].parent].super = cells[c].super
     /\ GhostChain(cells[c].parent)

\* C3 amended: the density task unlocks the ghost of super(ci) (and cj), the
\* force twin is unlocked by the ghost of ci (and cj) itself, and that ghost
\* hangs below the ghost of the super cell.
C3_GhostEdges ==
  pc = "done" =>
    \A t \in Density : \A f \in Twins(t) : \A c \in TaskCells(tasks[t]) :
      /\ SuperGhost(c) \in tasks[t].unlock
      /\ f \in tasks[cells[c].ghost].unlock
      /\ GhostChain(c)

\* a pair task on two cells below their super cells: its force twin hangs
\* below the ghosts of the two cells, not below those of the super cells
C3_Witness ==
  /\ pc = "done"
  /\ \E t \in Density : \E f \in Twins(t) :
       /\ tasks[t].type = "pair"
       /\ \A c \in TaskCells(tasks[t]) :
            /\ cells[c].super # c
            /\ f \notin tasks[SuperGhost(c)].unlock

\* C4: the unlock relation over all tasks that space_maketasks produces is
\* acyclic, in the first build and in every later one.
C4_Acyclic == Acyclic

\* the same for the build of space_init, which works on cells that bzero
\* has cleared
C4_FirstBuild == rebuilds = 1 => Acyclic

\* grid coordinate of cell c along axis a at the depth of c
Coord(c, a) == cells[c].loc[a] \div cells[c].h[a]

\* the cells ci and cj lie in the 27-cell stencil of each other
Neighbours(ci, cj) ==
  /\ ci # cj
  /\ cells[ci].depth = cells[cj].depth
  /\ \A a \in 1..3 :
       LET n == cdim[a] * (2 ^ cells[ci].depth)
           d == Coord(cj, a) - Coord(ci, a)
       IN IF periodic THEN (d % n) \in {0, 1, n - 1}
          ELSE d \in {-1, 0, 1}

\* C6: every pair task joins two distinct cells of the same depth that are
\* neighbours on the grid of that depth (across the seam only when periodic).
C6_PairsAreNeighbours ==
  \A t \in Tasks :
    tasks[t].type = "pair" => Neighbours(tasks[t].ci, tasks[t].cj)

\* a pair task made by refinement joins progeny of two different cells
C6_Witness ==
  /\ pc = "done"
  /\ \E t \in Tasks :
       /\ tasks[t].type = "pair"
       /\ cells[tasks[t].ci].depth > 0
       /\ cells[tasks[t].ci].parent # cells[tasks[t].cj].parent

\* C9: after the sweep no task of type sort has an empty unlock list.
C9_NoIdleSort ==
  pc \in {"count", "ghosts", "force", "done"} =>
    \A t \in Tasks : tasks[t].type = "sort" => tasks[t].unlock # {}

\* the sweep has removed the sort task of a cell and, after it, the sort
\* task of a progeny of that cell
C9_Witness ==
  /\ pc = "done"
  /\ \E t, u \in Tasks :
       /\ tasks[t].type = "none" /\ tasks[u].type = "none"
       /\ cells[tasks[u].ci].parent = tasks[t].ci

\* the neighbour of top-level cell A (1-based) at the offset d, 0 if none
OffsetNeighbour(A, d) ==
  LET x == << (A - 1) \div (cdim[2] * cdim[3]),
              ((A - 1) \div cdim[3]) % cdim[2],
              (A - 1) % cdim[3] >>
      y == [a \in 1..3 |-> x[a] + d[a]]
  IN IF ~periodic /\ \E a \in 1..3 : y[a] < 0 \/ y[a] >= cdim[a] THEN 0
     ELSE 1 + ((y[1] % cdim[1]) * cdim[2] + (y[2] % cdim[2])) * cdim[3]
            + (y[3] % cdim[3])

Offsets == { d \in (-1..1) \X (-1..1) \X (-1..1) : d # <<0, 0, 0>> }

\* the pairs << A, d >> for which the base graph holds a pair task
BasePairSet ==
  { x \in (1..nr_cells) \X Offsets :
      /\ cells[x[1]].count > 0
      /\ OffsetNeighbour(x[1], x[2]) > x[1]
      /\ cells[OffsetNeighbour(x[1], x[2])].count > 0 }

\* C10: the base graph holds one density self task per non-empty top-level
\* cell and, per offset d with a non-empty neighbour B of larger index, a
\* density pair task (A,B) unlocked by sorts[sortlistID[d]] of A and of B,
\* and no other self or pair task.
C10_BaseGraph ==
  (pc = "split" /\ tid = 0) =>
    /\ \A A \in 1..nr_cells :
         Cardinality({ t \in Tasks : tasks[t].type = "self" /\ tasks[t].ci = A })
           = IF cells[A].count > 0 THEN 1 ELSE 0
    /\ \A x \in BasePairSet :
         \E t \in Tasks :
           /\ tasks[t].type = "pair" /\ tasks[t].subtype = "density"
           /\ tasks[t].ci = x[1] /\ tasks[t].cj = OffsetNeighbour(x[1], x[2])
           /\ Preds(t) = { cells[c].sorts[sortlistID[ShiftIndex(x[2]) + 1] + 1] :
                             c \in {tasks[t].ci, tasks[t].cj} }
    /\ Cardinality({ t \in Tasks : tasks[t].type = "pair" })
         = Cardinality(BasePairSet)
    /\ \A t \in Tasks : tasks[t].type \in {"self", "pair"} =>
         /\ tasks[t].subtype = "density"
         /\ \A c \in TaskCells(tasks[t]) : cells[c].count > 0

\* a base graph with a pair task across the periodic seam and an empty cell
C10_Witness ==
  /\ pc = "split" /\ tid = 0
  /\ periodic
  /\ \E c \in 1..nr_cells : cells[c].count = 0
  /\ \E t \in Tasks : tasks[t].type = "pair"
       /\ \E a \in 1..3 : Coord(tasks[t].cj, a) - Coord(tasks[t].ci, a) > 1

\* the offset opposite to d
Neg(d) == << -d[1], -d[2], -d[3] >>

\* the direction id the table gives the offset d
SortID(d) == sortlistID[ShiftIndex(d) + 1]

\* C15: sortlistID gives an offset d of {-1,0,1}^3 and the offset -d the same
\* id in 0..12, and gives two non-zero offsets that are not opposite
\* different ids; this holds of the table the base loop has looked up.
C15_SortlistID ==
  (pc = "split" /\ tid = 0) =>
    /\ \A d \in (-1..1) \X (-1..1) \X (-1..1) :
         /\ SortID(d) \in 0..12
         /\ SortID(d) = SortID(Neg(d))
    /\ \A d, e \in Offsets :
         (e # d /\ e # Neg(d)) => SortID(d) # SortID(e)

\* the base loop has looked up the table for an offset and for the opposite
\* offset, both leading from one cell to the same neighbour
C15_Witness ==
  /\ pc = "split" /\ tid = 0
  /\ \E x \in BasePairSet :
       /\ << x[1], Neg(x[2]) >> \in BasePairSet
       /\ \E t \in Tasks :
            /\ tasks[t].type = "pair" /\ tasks[t].ci = x[1]
            /\ cells[x[1]].sorts[SortID(x[2]) + 1] \in Preds(t)

\* the offsets along the x axis
XOffsets == { << 1, 0, 0 >>, << -1, 0, 0 >> }

\* B is a neighbour of A along the x axis and at no other offset
XOnly(A, B) ==
  /\ \E d \in XOffsets : OffsetNeighbour(A, d) = B
  /\ \A e \in Offsets \ XOffsets : OffsetNeighbour(A, e) # B

\* the pair tasks of the base graph on the top-level cells A and B
PairsOn(A, B) ==
  { t \in Tasks : tasks[t].type = "pair" /\ tasks[t].ci = A /\ tasks[t].cj = B }

\* in the base graph, two non-empty top-level cells that are neighbours at
\* an offset (+-1,0,0) have a pair task whose predecessors are the sorts
\* entries id of the two cells, and no other pair task when they are
\* neighbours along x only
XPairSorted(id) ==
  (pc = "split" /\ tid = 0) =>
    \A A \in 1..nr_cells : \A d \in XOffsets :
      LET B == OffsetNeighbour(A, d)
          S == { cells[A].sorts[id + 1], cells[B].sorts[id + 1] }
      IN (B > A /\ cells[A].count > 0 /\ cells[B].count > 0) =>
           /\ \E t \in PairsOn(A, B) : Preds(t) = S
           /\ XOnly(A, B) => \A t \in PairsOn(A, B) : Preds(t) = S

\* C16 as stated: the base pair task of two non-empty top-level cells that
\* are neighbours along the x axis has the sorts entries of direction id 12
\* of both cells as its predecessors.
C16_XPairSort12 == XPairSorted(12)

\* C16, amended: the base pair task of two non-empty top-level cells that
\* are neighbours along the x axis, also across the periodic seam, has the
\* sorts entries of direction id 4 of both cells as its predecessors.
C16_XPairSort4 == XPairSorted(4)

\* a base graph with a pair task across the periodic seam of the x axis on
\* a cell whose sorts entries 4 and 12 are different tasks
C16_Witness ==
  /\ pc = "split" /\ tid = 0
  /\ periodic /\ cdim[1] = 3
  /\ cells[1].sorts[5] # cells[1].sorts[13]
  /\ \E t \in PairsOn(1, 3) :
       Preds(t) = { cells[1].sorts[5], cells[3].sorts[5] }

(***************************************************************************)
(* The rebuilds.                                                           *)
(***************************************************************************)
\* the step is a call of space_rebuild that returns
RebuildReturns == rebuilds' = rebuilds + 1 /\ err' = "ok"

\* the live cells of the tree cs with n top-level cells
Live(cs, n) == UNION { Subtree(cs, c) : c \in 1..n }

\* the sum of the counts of the top-level cells k, ..., n of cs
RECURSIVE SumCounts(_, _, _)
SumCounts(cs, k, n) ==
  IF k > n THEN 0 ELSE cs[k].count + SumCounts(cs, k + 1, n)

\* the arrays A and B hold the same elements the same number of times
IsPermutation(A, B) ==
  /\ Len(A) = Len(B)
  /\ \A n \in 1..Len(A) :
       Cardinality({ m \in 1..Len(A) : A[m] = A[n] })
         = Cardinality({ m \in 1..Len(B) : B[m] = A[n] })

\* C5: when space_rebuild returns, the counts of the top-level cells sum to
\* N, parts is a permutation of the particles it was called with, and every
\* particle in the slice of a top-level cell has the bin index of that cell.
C5_PartsBinned ==
  [][ RebuildReturns =>
        /\ SumCounts(cells', 1, nr_cells') = Len(parts)
        /\ IsPermutation(parts', parts)
        /\ \A c \in 1..nr_cells' : \A n \in 1..cells'[c].count :
             cell_getid(cdim', parts'[cells'[c].first + n].x[1] \div cells'[c].h[1],
                        parts'[cells'[c].first + n].x[2] \div cells'[c].h[2],
                        parts'[cells'[c].first + n].x[3] \div cells'[c].h[3])
               = c - 1 ]_vars

\* a cell was created or recycled, or the split flag of a cell changed
TreeChanged ==
  \/ Live(cells', nr_cells') # Live(cells, nr_cells)
  \/ \E c \in Live(cells, nr_cells) \cap Live(cells', nr_cells') :
       cells'[c].split # cells[c].split

\* C7: space_rebuild returns non-zero changes whenever a cell was created
\* or recycled or the split flag of a cell changed.
C7_ChangesReported ==
  [][ (RebuildReturns /\ TreeChanged) => changes' # 0 ]_vars

\* C8: space_rebuild with force = 0 and the same cell_max, called directly
\* after a completed rebuild with no particle changed, returns 0 and leaves
\* the split flag, the count and the non-NULL progeny of every cell and the
\* task list unchanged.
C8_SecondRebuildIdle ==
  [][ ( /\ rebuilds >= 1 /\ ~moved /\ rebuilds' = rebuilds + 1
        /\ force' = 0 /\ cell_max' = cell_max ) =>
        /\ err' = "ok"
        /\ changes' = 0
        /\ tasks' = tasks
        /\ \A c \in Live(cells, nr_cells) :
             /\ cells'[c].split = cells[c].split
             /\ cells'[c].count = cells[c].count
             /\ Kids(cells', c) = Kids(cells, c) ]_vars

\* the step rebuilt the grid of top-level cells
Regridded == force' = 1 \/ cdim' # cdim

\* the particles of cell c after the step
PartsOf(c) == SubSeq(parts', cells'[c].first + 1, cells'[c].first + cells'[c].count)

\* how many of them have h <= (shortest side of c) / 2
SmallOf(c) ==
  Cardinality({ n \in 1..cells'[c].count :
                  2 * PartsOf(c)[n].h <= Min3(cells'[c].h) })

\* C11: a cell that was not split before the rebuild (or did not exist) is
\* split after it if and only if more than count * splitRatio of its
\* particles have h <= (shortest side)/2 and its count exceeds splitSize;
\* otherwise it is a leaf with eight NULL progeny.
C11_SplitCriterion ==
  [][ RebuildReturns =>
        \A c \in Live(cells', nr_cells') :
          ( \/ Regridded
            \/ c \notin Live(cells, nr_cells)
            \/ ~cells[c].split ) =>
            /\ cells'[c].split <=>
                 /\ SmallOf(c) * SplitRatioDen > cells'[c].count * SplitRatioNum
                 /\ cells'[c].count > space_splitsize
            /\ ~cells'[c].split => cells'[c].progeny = Nil8 ]_vars

\* a rebuild has left a split cell and, below it, a leaf with more than
\* splitSize particles
C11_Witness ==
  /\ rebuilds >= 1 /\ pc = "done" /\ parts # <<>>
  /\ \E c \in Live(cells, nr_cells) :
       /\ ~cells[c].split
       /\ cells[c].count > space_splitsize
       /\ cells[c].parent # NULL
       /\ cells[cells[c].parent].split

\* C12: after a rebuild the h_max of every live cell is the largest h of the
\* particles in its range, 0 for an empty cell, whether the cell was newly
\* split, kept split or un-split.
C12_HmaxOfRange ==
  [][ RebuildReturns =>
        \A c \in Live(cells', nr_cells') :
          cells'[c].h_max = MaxH(PartsOf(c)) ]_vars

\* the rebuild that led here has un-split a cell or kept one split, and its
\* particles do not all have the same h
C12_Witness ==
  /\ rebuilds >= 2 /\ pc = "done" /\ force = 0
  /\ \E c \in Live(cells, nr_cells) :
       /\ cells[c].split
       /\ cells[c].h_max = 5
       /\ \E n \in 1..Len(parts) : parts[n].h = 3

\* the progeny of c that are not NULL
KidsOf(cs, c) == { cs[c].progeny[k] : k \in 1..8 } \ {NULL}

\* the sum of the counts of the progeny k, ..., 8 of c
RECURSIVE ProgenyCount(_, _, _)
ProgenyCount(cs, c, k) ==
  IF k > 8 THEN 0
  ELSE (IF cs[c].progeny[k] = NULL THEN 0 ELSE cs[cs[c].progeny[k]].count)
       + ProgenyCount(cs, c, k + 1)

\* C13: after a rebuild the counts of the non-NULL progeny of every split
\* cell sum to the count of the cell, the range of every child lies inside
\* the range of its parent, and the ranges of two children are disjoint.
C13_ProgenyRanges ==
  [][ RebuildReturns =>
        \A c \in Live(cells', nr_cells') :
          cells'[c].split =>
            /\ ProgenyCount(cells', c, 1) = cells'[c].count
            /\ \A p \in KidsOf(cells', c) :
                 /\ cells'[p].first >= cells'[c].first
                 /\ cells'[p].first + cells'[p].count
                      <= cells'[c].first + cells'[c].count
            /\ \A p, q \in KidsOf(cells', c) :
                 p # q =>
                   \/ cells'[p].first + cells'[p].count <= cells'[q].first
                   \/ cells'[q].first + cells'[q].count <= cells'[p].first ]_vars

\* a rebuild has left a split cell with two progeny, one of them holding a
\* single particle
C13_Witness ==
  /\ rebuilds >= 1 /\ pc = "done"
  /\ \E c \in Live(cells, nr_cells) :
       /\ cells[c].split
       /\ Cardinality(KidsOf(cells, c)) >= 2
       /\ \E p \in KidsOf(cells, c) : cells[p].count = 1

\* C20: when space_rebuild has returned, ci and cj of every task of the task
\* list are live cells of the tree (cj may be NULL), never a cell the
\* rebuild has recycled.
C20_TasksOnLiveCells ==
  (pc = "done" /\ rebuilds >= 1) =>
    \A t \in Tasks :
      tasks[t].type # "none" =>
        /\ tasks[t].ci \in Live(cells, nr_cells)
        /\ tasks[t].cj \in Live(cells, nr_cells) \cup {NULL}

(***************************************************************************)
(* The run of the graph.                                                   *)
(***************************************************************************)
\* the tasks that are popped or being executed
Popped == { runners[w].t : w \in { v \in DOMAIN runners : runners[v].st = "popped" } }
Executing == { runners[w].t : w \in { v \in DOMAIN runners : runners[v].st = "exec" } }

\* C17: during a run no task is popped or executed before each of its
\* predecessors has completed: the queue holds only tasks with wait 0, and
\* the wait of a task is the number of its predecessors that have not
\* completed yet (one decrement per completed predecessor).
C17_PredecessorsFirst ==
  pc = "run" =>
    \A t \in Tasks :
      /\ wait[t] = Cardinality({ p \in Preds(t) : executed[p] = 0 })
      /\ (queue[t] > 0 \/ t \in Popped) => wait[t] = 0
      /\ (t \in Popped \cup Executing \/ executed[t] > 0) =>
           \A p \in Preds(t) : executed[p] > 0

\* a task with two or more predecessors is being executed while another
\* task is still waiting
C17_Witness ==
  /\ pc = "run"
  /\ \E t \in Executing : Cardinality(Preds(t)) >= 2
  /\ \E t \in Tasks : wait[t] > 0

\* every task of the graph has been executed once
AllExecuted ==
  pc = "run" /\ \A t \in Tasks : tasks[t].type # "none" => executed[t] = 1

\* every worker has exited
AllExited ==
  pc = "run" /\ \A w \in DOMAIN runners : runners[w].st = "exited"

\* C19: under fair scheduling of the workers a run, once the graph is
\* submitted, comes to the point where every task has been executed exactly
\* once and all workers have exited; no task is ever executed twice and no
\* worker exits while a task is still unexecuted.
C19_RunCompletes ==
  /\ [](pc = "run" => \A t \in Tasks : executed[t] <= 1)
  /\ []((\E w \in DOMAIN runners : runners[w].st = "exited") => AllExecuted)
  /\ (pc = "run") ~> (AllExecuted /\ AllExited)

\* a run by two workers of a graph with two pair tasks on one cell, which
\* contend for its lock, has come to its end
C19_Witness ==
  /\ pc = "run"
  /\ Len(runners) = 2 /\ AllExited /\ AllExecuted
  /\ \E t, u \in Tasks :
       /\ t # u
       /\ tasks[t].subtype = "density" /\ tasks[u].subtype = "density"
       /\ LockCells(tasks[t]) \cap LockCells(tasks[u]) # {}

(***************************************************************************)
(* parts_sort                                                              *)
(***************************************************************************)
\* the pairs (ind[k], parts[k]) of two arrays of the same length
IndParts(I, P) == [k \in 1..Len(I) |-> << I[k], P[k] >>]

\* C21: parts_sort returns with ind non-decreasing and with the pairs
\* (ind[k], parts[k]) a permutation of the pairs it was called with, so that
\* every particle keeps its bin index, whatever N is.
C21_SortKeepsPairs ==
  [][pc = "sort" /\ pc' # "sort" =>
       /\ err' = "ok"
       /\ \A k \in 1..(Len(ind') - 1) : ind'[k] <= ind'[k + 1]
       /\ IsPermutation(IndParts(ind, parts), IndParts(ind', parts'))]_vars

(***************************************************************************)
(* space_splittasks on pair tasks                                          *)
(***************************************************************************)
\* the pass of the loop of space_splittasks on a pair task
PairPass == pc = "split" /\ tid < Len(tasks) /\ tasks[tid + 1].type = "pair"

\* C22: a pass of space_splittasks on a pair task never leaves a pair task
\* whose ci or cj is a missing (NULL) progeny and never reads the sort
\* tasks of a missing progeny, also when a progeny slot of one of the two
\* split cells is empty.
C22_NoMissingChild ==
  [][PairPass =>
       /\ err' = "ok"
       /\ \A t \in 1..Len(tasks') :
            tasks'[t].type = "pair" =>
              tasks'[t].ci \in DOMAIN cells /\ tasks'[t].cj \in DOMAIN cells]_vars

(***************************************************************************)
(* maketasks_sort_rec                                                      *)
(***************************************************************************)
\* the sort task of the progeny kid for the direction dir unlocks the one of
\* the cell
SortFeeds(kid, cell, dir) ==
  /\ cells[kid].sorts[dir + 1] # NULL
  /\ cells[cell].sorts[dir + 1] # NULL
  /\ cells[cell].sorts[dir + 1] \in tasks[cells[kid].sorts[dir + 1]].unlock

\* C23: once the sort tasks are made, for every split cell c, every non-NULL
\* progeny p of c and every direction d in 0..12 the sort task p.sorts[d]
\* is a predecessor of c.sorts[d], however the two cells group their
\* directions into sort tasks.
C23_SortComposition ==
  pc = "base" =>
    \A c \in DOMAIN cells :
      cells[c].split =>
        \A k \in Kids(cells, c), d \in 0..12 :
          SortFeeds(cells[c].progeny[k + 1], c, d)

\* the same for the cells whose progeny have not two sort tasks each
C23_SameGrouping ==
  pc = "base" =>
    \A c \in DOMAIN cells :
      cells[c].split =>
        \A k \in Kids(cells, c), d \in 0..12 :
          \/ /\ cells[c].count >= SortTwo
             /\ cells[cells[c].progeny[k + 1]].count >= SortOne
             /\ cells[cells[c].progeny[k + 1]].count < SortTwo
          \/ SortFeeds(cells[c].progeny[k + 1], c, d)

(***************************************************************************)
(* space_rebuild_recurse on a cell that is split                           *)
(***************************************************************************)
\* the cells of the buffer of free cells that have been recycled
Recycled(cn) == { cn.stack[n] : n \in 1..Len(cn.stack) }

\* C24: a rebuild that keeps the top-level grid un-splits every cell that
\* was split and whose particles no longer satisfy the split criterion
\* (more than count * splitRatio particles with h <= side/2 and count >
\* splitSize), also when a quantity is exactly on its threshold: the cell is
\* a leaf with eight NULL progeny and its former descendants are recycled.
C24_UnsplitOffCriterion ==
  [][ (RebuildReturns /\ ~Regridded) =>
        \A c \in Live(cells, nr_cells) \cap Live(cells', nr_cells') :
          ( /\ cells[c].split
            /\ ~SplitTest(SmallOf(c), cells'[c].count, space_splitsize) ) =>
            /\ ~cells'[c].split
            /\ cells'[c].progeny = Nil8
            /\ \A d \in Subtree(cells, c) \ {c} :
                 d \in Recycled(cells_new') \/ d \in Live(cells', nr_cells')
    ]_vars

\* the same with the test of the code: fewer than count * splitRatio
\* particles with h <= side/2, or count < splitSize
C24_UnsplitBelowCriterion ==
  [][ (RebuildReturns /\ ~Regridded) =>
        \A c \in Live(cells, nr_cells) \cap Live(cells', nr_cells') :
          ( /\ cells[c].split
            /\ UnsplitTest(SmallOf(c), cells'[c].count, space_splitsize) ) =>
            /\ ~cells'[c].split
            /\ cells'[c].progeny = Nil8
            /\ \A d \in Subtree(cells, c) \ {c} :
                 d \in Recycled(cells_new') \/ d \in Live(cells', nr_cells')
    ]_vars

\* the pair task of the pass, the sorting index of its two cells and the
\* cells and the direction the pass goes on with
CurTask == tasks[tid + 1]
CurRaw == RawSid(G, cells, CurTask.ci, CurTask.cj)
CurCi == IF CurRaw < 13 THEN CurTask.cj ELSE CurTask.ci
CurCj == IF CurRaw < 13 THEN CurTask.ci ELSE CurTask.cj
CurSid == IF CurRaw < 13 THEN CurRaw ELSE 26 - CurRaw

\* the pass is on a pair task that is split up
RefinePass == PairPass /\ Refinable(cells, CurTask.ci, CurTask.cj)

\* the pass makes a sub task of the pair task
SubPass ==
  /\ RefinePass
  /\ cells[CurCi].count < space_subsize
  /\ cells[CurCj].count < space_subsize
  /\ CurSid \notin {0, 2, 6, 8}

\* the pass replaces the pair task by pair tasks of the progeny
ExplicitPass == RefinePass /\ ~SubPass

\* the non-NULL progeny of cell c
Children(c) == { cells[c].progeny[k] : k \in 1..8 } \ {NULL}

\* the signs of the displacement from cell a to cell b, wrapped
Dir(a, b) ==
  << Sign3(WrappedDiff(G, cells, a, b, 1)) - 1,
     Sign3(WrappedDiff(G, cells, a, b, 2)) - 1,
     Sign3(WrappedDiff(G, cells, a, b, 3)) - 1 >>

\* two cells of the same size touch: along no axis they are further apart
\* than one side
Touch(a, b) ==
  \A k \in 1..3 :
    /\ WrappedDiff(G, cells, a, b, k) <= cells[a].h[k]
    /\ -WrappedDiff(G, cells, a, b, k) <= cells[a].h[k]

\* the tasks that unlock task n after the step
PredsAfter(n) == { i \in 1..Len(tasks') : n \in tasks'[i].unlock }

\* the task of the pass and the tasks the pass has appended are the pair
\* tasks of the touching pairs of progeny of the two cells, one each, below
\* the sorts of the direction of the pair
ChildPairsMade ==
  LET E == { e \in Children(CurCi) \X Children(CurCj) : Touch(e[1], e[2]) }
      N == {tid + 1} \cup ((Len(tasks) + 1)..Len(tasks'))
  IN /\ err' = "ok"
     /\ \A n \in N :
          /\ tasks'[n].type = "pair"
          /\ << tasks'[n].ci, tasks'[n].cj >> \in E
          /\ PredsAfter(n) =
               { cells[tasks'[n].ci].sorts[
                   SortID(Dir(tasks'[n].ci, tasks'[n].cj)) + 1],
                 cells[tasks'[n].cj].sorts[
                   SortID(Dir(tasks'[n].ci, tasks'[n].cj)) + 1] }
     /\ \A e \in E :
          Cardinality({ n \in N : << tasks'[n].ci, tasks'[n].cj >> = e }) = 1

\* C25: when a pass of space_splittasks replaces a refinable pair (ci, cj)
\* by pair tasks of the progeny, these are exactly the pairs (progeny a of
\* ci, progeny b of cj) that touch, each made once, and each has the entries
\* sorts[sortlistID[displacement from a to b]] of a and b as predecessors,
\* whatever the direction of (ci, cj).
C25_ChildPairs == [][ExplicitPass => ChildPairsMade]_vars

\* the same for the passes that do not stop at a missing progeny
C25_UnlessCrashed ==
  [][(ExplicitPass /\ err' = "ok") => ChildPairsMade]_vars

(***************************************************************************)
(* space_splittasks on self tasks                                          *)
(***************************************************************************)
\* the pass is on a self task that is replaced by the tasks of the progeny
ExplicitSelfPass ==
  /\ pc = "split" /\ tid < Len(tasks)
  /\ CurTask.type = "self"
  /\ cells[CurTask.ci].split
  /\ cells[CurTask.ci].count >= space_subsize

\* the pairs << j, k >>, j < k, of non-NULL progeny slots of cell c
SlotPairs(c) ==
  { x \in Kids(cells, c) \X Kids(cells, c) : x[1] < x[2] }

\* C26: a pass of space_splittasks on a self task of a split cell with
\* count >= space_subsize and k non-NULL progeny replaces the task by
\* exactly k self tasks, one per progeny, and k(k-1)/2 pair tasks, one per
\* pair of progeny j < k' (28 for eight progeny); every pair task has the
\* entries sorts[pts[j][k']] of both progeny as predecessors, and pts[j][k']
\* is sortlistID of the displacement between the two progeny.
C26_SelfRefined ==
  [][ExplicitSelfPass =>
       LET c == CurTask.ci
           pr(j) == cells[c].progeny[j + 1]
           k == Cardinality(Kids(cells, c))
           N == {tid + 1} \cup ((Len(tasks) + 1)..Len(tasks'))
           S == { n \in N : tasks'[n].type = "self" }
           P == { n \in N : tasks'[n].type = "pair" }
       IN /\ err' = "ok"
          /\ N = S \cup P
          /\ Cardinality(S) = k
          /\ 2 * Cardinality(P) = k * (k - 1)
          /\ k = 8 => Cardinality(P) = 28
          /\ \A j \in Kids(cells, c) :
               \E n \in S : tasks'[n].ci = pr(j) /\ tasks'[n].cj = NULL
          /\ \A x \in SlotPairs(c) :
               /\ pts[x[1] + 1][x[2] + 1] = SortID(Dir(pr(x[1]), pr(x[2])))
               /\ \E n \in P :
                    /\ tasks'[n].ci = pr(x[1]) /\ tasks'[n].cj = pr(x[2])
                    /\ PredsAfter(n) =
                         { cells[pr(x[1])].sorts[pts[x[1] + 1][x[2] + 1] + 1],
                           cells[pr(x[2])].sorts[pts[x[1] + 1][x[2] + 1] + 1] }
     ]_vars

\* the self task of a cell with eight progeny has been replaced: 28 pair
\* tasks are on pairs of progeny of that cell
C26_Witness ==
  /\ pc = "split"
  /\ \E c \in DOMAIN cells :
       /\ cells[c].split
       /\ Cardinality(Kids(cells, c)) = 8
       /\ Cardinality({ t \in 1..Len(tasks) :
            /\ tasks[t].type = "pair"
            /\ cells[tasks[t].ci].parent = c
            /\ cells[tasks[t].cj].parent = c }) = 28

\* C27: a pass on a refinable pair task whose two cells both have count <
\* space_subsize and whose direction sid' is none of 0, 2, 6, 8 turns the
\* task into one sub task on the two cells with flags = sid', appends no
\* task, gives it every sort task in the 14 sorts[] entries of every
\* non-NULL progeny of both cells as a predecessor, and moves on to the next
\* task; no later pass changes a sub task.
C27_PairToSub ==
  [][ /\ SubPass =>
        /\ err' = "ok"
        /\ tid' = tid + 1
        /\ Len(tasks') = Len(tasks)
        /\ tasks'[tid + 1].type = "sub"
        /\ tasks'[tid + 1].flags = CurSid
        /\ tasks'[tid + 1].ci = CurCi
        /\ tasks'[tid + 1].cj = CurCj
        /\ \A p \in Children(CurCi) \cup Children(CurCj) :
             \A k \in 1..14 :
               cells[p].sorts[k] # NULL =>
                 cells[p].sorts[k] \in PredsAfter(tid + 1)
      /\ pc = "split" =>
           \A n \in 1..Len(tasks) :
             (tasks[n].type = "sub" /\ tasks[n].cj # NULL) =>
               /\ n <= Len(tasks')
               /\ tasks'[n].type = "sub"
               /\ tasks'[n].flags = tasks[n].flags
               /\ tasks'[n].ci = tasks[n].ci
               /\ tasks'[n].cj = tasks[n].cj
    ]_vars

\* a pair task has become a sub task on two cells that have empty progeny
\* slots and whose progeny have two sort tasks each, and the loop has
\* passed it
C27_Witness ==
  /\ pc = "split"
  /\ \E n \in 1..Len(tasks) :
       /\ n <= tid
       /\ tasks[n].type = "sub"
       /\ tasks[n].cj # NULL
       /\ tasks[n].flags \in 0..12
       /\ Cardinality(Children(tasks[n].ci)) < 8
       /\ \E p \in Children(tasks[n].cj) :
            cells[p].sorts[1] # cells[p].sorts[14] /\ cells[p].sorts[14] # NULL

\* the offset the switch of space_splittasks names for the direction sid:
\* the one of the two opposite offsets whose first non-zero component is 1
Canonical(sid) == ShiftOf(26 - sid)

\* C28: a pass on a refinable pair task works with a direction in 0..12 and
\* with the two cells in the order in which the wrapped displacement from ci
\* to cj is the canonical positive offset of that direction (the cells are
\* swapped when the sorting index of the task is below 13, the index is
\* folded to 26 - sid otherwise), across the periodic seam as well as in the
\* interior; the sub task or the pair tasks it leaves are on these cells in
\* this order.
C28_Normalised ==
  [][RefinePass =>
       /\ CurSid \in 0..12
       /\ Dir(CurCi, CurCj) = Canonical(CurSid)
       /\ SortID(Dir(CurCi, CurCj)) = CurSid
       /\ SubPass =>
            /\ tasks'[tid + 1].ci = CurCi
            /\ tasks'[tid + 1].cj = CurCj
            /\ tasks'[tid + 1].flags = CurSid
       /\ (ExplicitPass /\ err' = "ok") =>
            /\ tasks'[tid + 1].ci \in Children(CurCi)
            /\ tasks'[tid + 1].cj \in Children(CurCj)
            /\ \A k \in 1..3 :
                 Canonical(CurSid)[k] * Dir(tasks'[tid + 1].ci,
                                            tasks'[tid + 1].cj)[k] >= 0
     ]_vars

\* a pair task across the periodic seam has been swapped and made a sub
\* task, another one has been replaced by pair tasks of the progeny
C28_Witness ==
  /\ pc = "split"
  /\ periodic
  /\ \E n \in 1..Len(tasks) :
       /\ n <= tid
       /\ tasks[n].type = "sub"
       /\ tasks[n].cj # NULL
       /\ tasks[n].ci > tasks[n].cj
       /\ \E k \in 1..3 :
            cells[tasks[n].cj].loc[k] - cells[tasks[n].ci].loc[k]
              # WrappedDiff(G, cells, tasks[n].ci, tasks[n].cj, k)

\* the pass has split up the pair task: it has changed the task list or has
\* stopped at a missing progeny
SplitUp == tasks' # tasks \/ err' # "ok"

\* both cells of the pair task are split and h_max * stretch of either is
\* below half of the side side(h) of the cell
RoomBelow(side(_)) ==
  /\ cells[CurTask.ci].split /\ cells[CurTask.cj].split
  /\ cells[CurTask.ci].h_max * StretchNum * 2
       < side(cells[CurTask.ci].h) * StretchDen
  /\ cells[CurTask.cj].h_max * StretchNum * 2
       < side(cells[CurTask.cj].h) * StretchDen

\* C29: space_splittasks splits up a pair task if and only if both cells
\* are split and h_max * stretch of each cell is strictly smaller than half
\* of the shortest side of the cell, also for cells whose sides differ.
C29_RefinableShortSide ==
  [][PairPass => (SplitUp <=> RoomBelow(Min3))]_vars

\* the same with the longest side of the cell
C29_RefinableLongSide ==
  [][PairPass => (SplitUp <=> RoomBelow(Max3))]_vars

\* the ghost tasks have been made without a crash
GhostsMade == pc \in {"force", "done"} /\ err = "ok"

\* the cells space_map_cells visits
LiveCells == Live(cells, nr_cells)

\* the highest ancestor of c, c included, that has a task; c if there is none
Super(c) == SuperOf(cells, c, c)

\* c is the highest of its ancestors, c included, that has a task
OwnSuper(c) == Super(c) = c /\ cells[c].nr_tasks > 0

\* the ghost tasks of the build on cell c
GhostsOn(c) == { k \in 1..Len(tasks) : tasks[k].type = "ghost"
                                        /\ tasks[k].ci = c }

\* the ghost of a cell that lies below its super is unlocked by the ghost of
\* its parent
BelowParentGhost ==
  \A c \in LiveCells :
     Super(c) # c =>
       \E k \in GhostsOn(c), kp \in GhostsOn(cells[c].parent) :
          k \in tasks[kp].unlock

\* C30: after space_maketasks a ghost task exists for exactly the cells that
\* are their own super or have nr_tasks > 0, and the ghost of every cell that
\* is not its own super has the ghost of its parent as a predecessor.
C30_GhostsOfSupers ==
  GhostsMade =>
    /\ \A c \in LiveCells :
          GhostsOn(c) # {} <=> (OwnSuper(c) \/ cells[c].nr_tasks > 0)
    /\ BelowParentGhost

\* C30 amended: after space_maketasks exactly one ghost task exists for the
\* cells that are below their super or have nr_tasks > 0 and none for the
\* other cells, and the ghost of every cell that is not its own super has
\* the ghost of its parent as a predecessor.
C30_GhostsBelowSupers ==
  GhostsMade =>
    /\ \A c \in LiveCells :
          /\ Cardinality(GhostsOn(c)) <= 1
          /\ GhostsOn(c) # {} <=> (Super(c) # c \/ cells[c].nr_tasks > 0)
          /\ GhostsOn(c) # {} => cells[c].ghost \in GhostsOn(c)
    /\ BelowParentGhost

\* a finished graph with a cell without tasks below its super that has a
\* ghost, and a cell without tasks that is its own super and has none
C30_Witness ==
  /\ pc = "done" /\ err = "ok"
  /\ \E c \in LiveCells :
        Super(c) # c /\ cells[c].nr_tasks = 0 /\ GhostsOn(c) # {}
  /\ \E c \in LiveCells :
        Super(c) = c /\ cells[c].nr_tasks = 0 /\ GhostsOn(c) = {}
  /\ \E c \in LiveCells :
        Super(c) = c /\ cells[c].nr_tasks > 0 /\ GhostsOn(c) # {}

\* the sort tasks have just been created
SortsMade == pc = "base" /\ err = "ok"

\* the sort tasks of the build on cell c
SortsOn(c) == { k \in 1..Len(tasks) : tasks[k].type = "sort"
                                       /\ tasks[k].ci = c }

\* the number of sort tasks for a cell of n particles
SortGroups(n) == IF n < 1000 THEN 1 ELSE IF n < 5000 THEN 2 ELSE 7

\* C31: for every cell with count > 0 the flags of its sort tasks partition
\* the directions 0..12, sorts[d] is the task whose flags contain bit d, and
\* there is 1 task (flags 0x1FFF) when count < 1000, 2 when
\* 1000 <= count < 5000 and 7 when count >= 5000.
C31_SortFlagsPartition ==
  SortsMade =>
    \A c \in LiveCells :
       cells[c].count > 0 =>
         /\ \A d \in 0..12 :
               /\ Cardinality({ k \in SortsOn(c) : Bit(tasks[k].flags, d) }) = 1
               /\ cells[c].sorts[d + 1] \in SortsOn(c)
               /\ Bit(tasks[cells[c].sorts[d + 1]].flags, d)
         /\ \A k \in SortsOn(c) : tasks[k].flags \in 1..8191
         /\ Cardinality(SortsOn(c)) = SortGroups(cells[c].count)
         /\ cells[c].count < 1000 =>
              \A k \in SortsOn(c) : tasks[k].flags = 8191

\* sort tasks made for cells of the three sizes, one of exactly 5000
\* particles
C31_Witness ==
  /\ SortsMade
  /\ \E c \in LiveCells : cells[c].count \in 1..999
                          /\ Cardinality(SortsOn(c)) = 1
  /\ \E c \in LiveCells : cells[c].count \in 1000..4999
                          /\ Cardinality(SortsOn(c)) = 2
  /\ \E c \in LiveCells : cells[c].count = 5000
                          /\ Cardinality(SortsOn(c)) = 7

\* the slot j (0..13) of sorts[] of cell c is unset, or holds a sort task
\* made for c in this build
OwnSort(c, j) ==
  cells[c].sorts[j + 1] = NULL \/ cells[c].sorts[j + 1] \in SortsOn(c)

\* the pass makes a sub task of the self task of a split cell
SelfSubPass ==
  /\ pc = "split" /\ tid < Len(tasks)
  /\ CurTask.type = "self"
  /\ cells[CurTask.ci].split
  /\ cells[CurTask.ci].count < space_subsize

\* C32: every edge the build adds from or to an entry of sorts[] (sort
\* composition, self-to-sub conversion, pair-to-sub conversion) ends at a
\* sort task made for that cell in the current build: the slots used are
\* unset (no edge is added) or hold such a task, none is stale, slot 13 of
\* a cell with fewer than 1000 particles included.
C32_SortSlotsCurrent ==
  /\ SortsMade =>
       \A c \in LiveCells : \A p \in Children(c) :
          \A j \in SortHeads(cells, c) :
             cells[c].sorts[j + 1] # NULL /\ cells[p].sorts[j + 1] # NULL =>
               cells[c].sorts[j + 1] \in SortsOn(c)
               /\ cells[p].sorts[j + 1] \in SortsOn(p)
  /\ SelfSubPass =>
       \A j \in SortHeads(cells, CurTask.ci) : OwnSort(CurTask.ci, j)
  /\ SubPass =>
       \A p \in Children(CurTask.ci) \cup Children(CurTask.cj) :
          \A j \in 0..13 : OwnSort(p, j)

\* the same in the first build after space_init
C32_FirstBuild == rebuilds = 1 => C32_SortSlotsCurrent

\* the base graph: the graph as the walk over the top-level cells leaves it
BaseGraph == pc = "split" /\ tid = 0 /\ err = "ok"

\* the density pair tasks on the two cells A and B, in either order
DensityPairsOn(A, B) ==
  { t \in 1..Len(tasks) : /\ tasks[t].type = "pair"
                          /\ tasks[t].subtype = "density"
                          /\ {tasks[t].ci, tasks[t].cj} = {A, B} }

\* C33: the base graph holds at most one density pair task for each
\* unordered pair of distinct top-level cells, for every grid size, a
\* periodic grid with only 2 cells along an axis included.
C33_OnePairPerNeighbour ==
  BaseGraph =>
    \A A, B \in 1..nr_cells : A < B => Cardinality(DensityPairsOn(A, B)) <= 1

\* the same for the grids in which no two offsets lead to one neighbour: the
\* space is not periodic, or has 3 cells or more along every axis
C33_OnWideGrids ==
  (BaseGraph /\ (~periodic \/ \A a \in 1..3 : cdim[a] >= 3)) =>
    \A A, B \in 1..nr_cells : A < B => Cardinality(DensityPairsOn(A, B)) <= 1

\* the cells taken from the buffer of free cells so far
HandedOut == (PoolBase + 1)..(cells_new.fresh - 1)

\* the cells on the list of free cells
FreeCells == { cells_new.stack[n] : n \in 1..Len(cells_new.stack) }

\* C34: after any sequence of rebuilds every cell ever taken from the
\* allocator is reachable from the top-level grid through progeny pointers
\* or is on the free list, and tot_cells is the number of reachable cells,
\* also when a progeny that was itself split has become empty and has been
\* recycled.
C34_NoCellLost ==
  pc # "start" =>
    /\ HandedOut \subseteq LiveCells \cup FreeCells
    /\ tot_cells = Cardinality(LiveCells)

\* the same as long as no progeny is recycled with cells of its own below
\* it: the cells that are neither live nor free all lie below a cell that
\* was lost or recycled while it was split
C34_LostBelowRecycled ==
  pc # "start" =>
    \A p \in HandedOut \ (FreeCells \cup LiveCells) :
       cells[p].parent \in HandedOut \ LiveCells

\* the deepest level of the cell tree
DeepestLevel(cs) ==
  CHOOSE d \in 0..8 : /\ \E c \in DOMAIN cs : cs[c].depth = d
                      /\ \A c \in DOMAIN cs : cs[c].depth <= d

\* what is left to do on the task tk: a self task on a cell is replaced by at
\* most 8 self and 28 pair tasks one level down, a pair task by at most 16
TaskLoad(cs, tk) ==
  IF tk.type \in {"self", "pair"}
  THEN 37 ^ (DeepestLevel(cs) - cs[tk.ci].depth)
  ELSE 1

\* what is left to do on the tasks lo, ..., hi of the list ts
RECURSIVE LoadOf(_, _, _, _)
LoadOf(cs, ts, lo, hi) ==
  IF lo > hi THEN 0
  ELSE IF lo = hi THEN TaskLoad(cs, ts[lo])
  ELSE LoadOf(cs, ts, lo, (lo + hi) \div 2)
       + LoadOf(cs, ts, (lo + hi) \div 2 + 1, hi)

\* the pair task t of the list could be split up by a pass of the loop
StillRefinable(t) ==
  /\ tasks[t].type = "pair"
  /\ cells[tasks[t].ci].split /\ cells[tasks[t].cj].split
  /\ cells[tasks[t].ci].h_max * StretchNum * 2
       < Min3(cells[tasks[t].ci].h) * StretchDen
  /\ cells[tasks[t].cj].h_max * StretchNum * 2
       < Min3(cells[tasks[t].cj].h) * StretchDen

\* C35: space_splittasks terminates for every cell tree although it appends
\* tasks and steps its index back: every pass of the loop goes through and
\* leaves less to do on the tasks from its index on; and on return no self
\* task acts on a split cell and no pair task is refinable.
C35_SplitTerminates ==
  [][ /\ SplitTask =>
           /\ err' = "ok"
           /\ LoadOf(cells', tasks', tid' + 1, Len(tasks'))
                < LoadOf(cells, tasks, tid + 1, Len(tasks))
      /\ RemoveSorts =>
           \A t \in 1..Len(tasks) :
              /\ tasks[t].type = "self" => ~cells[tasks[t].ci].split
              /\ ~StillRefinable(t) ]_vars

\* the same for the passes that do not stop at a missing progeny
C35_UnlessCrashed ==
  [][ /\ (SplitTask /\ err' = "ok") =>
           LoadOf(cells', tasks', tid' + 1, Len(tasks'))
             < LoadOf(cells, tasks, tid + 1, Len(tasks))
      /\ RemoveSorts =>
           \A t \in 1..Len(tasks) :
              /\ tasks[t].type = "self" => ~cells[tasks[t].ci].split
              /\ ~StillRefinable(t)
              /\ tasks[t].type = "pair" =>
                   ~Refinable(cells, tasks[t].ci, tasks[t].cj) ]_vars

\* iteration k is in space_getcell with the cell it hands out in c
Getting(k) ==
  /\ Running(k)
  /\ Cur(k)[2] = "get"
  /\ loop.th[k].st \in {"picked", "taken", "unlock"}

\* iteration k is in space_recycle and has cleared the cell c
Recycling(k) ==
  /\ Running(k)
  /\ Cur(k)[2] = "recycle"
  /\ loop.th[k].st \in {"cleared", "unlock"}

\* the calls of the kind what of iteration k that have changed s->tot_cells
Counted(k, what) ==
  Cardinality({ n \in 1..(loop.q.ip[k] - 1) : loop.tr[k][n][2] = what })
  + (IF /\ Running(k)
        /\ Cur(k)[2] = what
        /\ loop.th[k].st \in (IF what = "get" THEN {"taken", "unlock"}
                              ELSE {"unlock"})
     THEN 1 ELSE 0)

\* the calls of space_getcell less the calls of space_recycle of the
\* iterations S that have changed s->tot_cells
RECURSIVE NetCalls(_)
NetCalls(S) ==
  IF S = {} THEN 0
  ELSE LET k == CHOOSE x \in S : TRUE
       IN Counted(k, "get") - Counted(k, "recycle") + NetCalls(S \ {k})

\* the cells of the tree before the loop that iteration k has yet to clear
Doomed(k) ==
  { loop.tr[k][n][3] :
      n \in { m \in loop.q.ip[k]..Len(loop.tr[k]) :
                /\ loop.tr[k][m][2] = "recycle"
                /\ loop.tr[k][m][3] > 0
                /\ m = loop.q.ip[k] => ~Recycling(k) } }

\* the cells in use in the loop: handed out and not cleared since, or in
\* the tree and cleared later in the loop
Used ==
  { a \in DOMAIN loop.q.owner : loop.q.owner[a] # NULL }
  \cup UNION { Doomed(k) : k \in DOMAIN loop.tr }

\* the cells of the buffer of free cells
InBuffer(c) ==
  \/ \E n \in 1..Len(loop.q.fl.stack) : loop.q.fl.stack[n] = c
  \/ c >= loop.q.fl.fresh

\* C36: while the iterations of the parallel loop rebuild different
\* top-level cells, space_getcell hands out a cell that is not in use and
\* that no other iteration is being handed or is recycling at the same time,
\* no cell in use is in the buffer of free cells, and s->tot_cells has
\* changed by the number of calls of space_getcell less the number of calls
\* of space_recycle.
C36_FreeListUnderLock ==
  pc = "loop" =>
    /\ \A k \in DOMAIN loop.tr :
         Getting(k) =>
           /\ loop.th[k].c \notin Used
           /\ \A j \in (DOMAIN loop.tr) \ {k} :
                (Getting(j) \/ Recycling(j)) => loop.th[j].c # loop.th[k].c
    /\ \A a \in Used : ~InBuffer(a)
    /\ loop.q.tot = loop.rs.tot_cells + NetCalls(DOMAIN loop.tr)

\* iteration j has recycled the cell a in this loop
RecycledBy(j, a) ==
  \E n \in 1..(loop.q.ip[j] - 1) :
     /\ loop.tr[j][n][2] = "recycle"
     /\ a = IF loop.tr[j][n][3] < 0 THEN loop.q.at[loop.tr[j][n][3]]
            ELSE loop.tr[j][n][3]

\* an iteration is handed a cell another iteration has recycled, while that
\* iteration, which has called space_getcell in this loop too, spins in
\* lock_lock for its next call
C36_Witness ==
  /\ pc = "loop"
  /\ \E k, j \in DOMAIN loop.tr :
       /\ k # j
       /\ Getting(k) /\ loop.th[k].st = "unlock"
       /\ RecycledBy(j, loop.th[k].c)
       /\ Counted(j, "get") > 0
       /\ Running(j) /\ Spinning(j)

\* the arrays a and b hold the same entries outside the positions lo..hi
SameOutside(a, b, lo, hi) ==
  \A k \in (1..Len(a.ind)) \ (lo..hi) :
     a.ind[k] = b.ind[k] /\ a.parts[k] = b.parts[k]

\* in parts_sort( &parts[off] , &ind[off] , N , min , max ) and the calls
\* below it, the pass of quicksort ends with i = j + 1, the call on the left
\* writes to the entries 0..j only and the call on the right to i..N-1 only
RECURSIVE BranchesApart(_, _, _, _, _)
BranchesApart(a, off, N, min, max) ==
  LET pivot == (min + max) \div 2
      r == Partition(a, off, N, pivot, 0, N - 1)
      goleft == r.j > 0 /\ pivot > min
      goright == r.i < N /\ pivot + 1 < max
      left == IF goleft THEN parts_sort(r.a, off, r.j + 1, min, pivot) ELSE r.a
      right == IF goright
               THEN parts_sort(r.a, off + r.i, N - r.i, pivot + 1, max)
               ELSE r.a
  IN N >= 16 =>
       /\ r.i = r.j + 1
       /\ -1 <= r.j /\ r.j <= N - 1
       /\ SameOutside(left, r.a, off + 1, off + r.j + 1)
       /\ SameOutside(right, r.a, off + r.i + 1, off + N)
       /\ goleft => BranchesApart(r.a, off, r.j + 1, min, pivot)
       /\ goright => BranchesApart(r.a, off + r.i, N - r.i, pivot + 1, max)

\* C38: after the pass of quicksort of parts_sort the two recursive calls
\* work on the index ranges 0..j and i..N-1 with i = j + 1, which are
\* disjoint and cover the array, and neither call touches an entry of ind or
\* parts of the other range.
C38_BranchesDisjoint ==
  pc = "sort" =>
    \A mn \in 0..1, mx \in 1..SortBins :
       (\A k \in 1..Len(ind) : mn <= ind[k] /\ ind[k] < mx) =>
         BranchesApart([ind |-> ind, parts |-> parts, err |-> "ok"],
                       0, Len(ind), mn, mx)

\* an array on which both calls are made and the left one makes a pass of
\* quicksort of its own
C38_Witness ==
  /\ pc = "sort"
  /\ Len(ind) >= 16
  /\ LET r == Partition([ind |-> ind, parts |-> parts, err |-> "ok"],
                        0, Len(ind), (0 + SortBins) \div 2, 0, Len(ind) - 1)
     IN /\ r.j + 1 >= 16
        /\ r.i < Len(ind)
        /\ (0 + SortBins) \div 2 + 1 < SortBins
        /\ \E k \in 1..Len(ind) : r.a.ind[k] # ind[k]

\* the size of the cells space_rebuild is asked for, times StretchDen
AskedSide(P, cm) == Max(MaxH(P) * StretchNum, cm * StretchDen)

\* floor( d / side ) for the length d and the side AskedSide
NewSize(d, side) ==
  CHOOSE n \in 0..d : n * side <= d * StretchDen /\ (n + 1) * side > d * StretchDen

\* the top-level cells have just been allocated and cleared: none has the
\* super cell that the build of the graph gives to every cell
GridAllocated(cs, n) == \A c \in 1..n : cs[c].super = NULL

\* C39: after every space_rebuild on a domain whose sides are at least
\* max( h_max * stretch , cell_max ), every axis has at least one top-level
\* cell and the edge of the top-level cells along every axis is at least
\* max( h_max * stretch , cell_max ); the grid is allocated anew exactly
\* when force is set or the new grid size is smaller than the current one
\* along some axis.
C39_GridAfterRebuild ==
  [][ (rebuilds' = rebuilds + 1 /\ err' = "ok"
       /\ \A k \in 1..3 : dim[k] * StretchDen >= AskedSide(parts, cell_max'))
      =>
        /\ \A k \in 1..3 :
             /\ cdim'[k] >= 1
             /\ dim[k] * StretchDen >= cdim'[k] * AskedSide(parts, cell_max')
             /\ \A c \in 1..nr_cells' :
                  cells'[c].h[k] * StretchDen >= AskedSide(parts, cell_max')
        /\ GridAllocated(cells', nr_cells')
             <=> \/ force' # 0
                 \/ \E k \in 1..3 :
                      NewSize(dim[k], AskedSide(parts, cell_max')) < cdim[k]
    ]_vars

\* space_rebuild, not forced, has kept the grid of one cell that a larger
\* smoothing length had asked for, although two cells of the size asked for
\* now fit along every axis
C39_Witness ==
  /\ pc = "done" /\ err = "ok"
  /\ rebuilds = 2 /\ force = 0
  /\ cdim = <<1, 1, 1>>
  /\ cell_max = 8
  /\ MaxH(parts) = 3
  /\ NewSize(dim[1], AskedSide(parts, cell_max)) = 2
  /\ ~GridAllocated(cells, nr_cells)

====
